---- MODULE Spec2Model ----
(***************************************************************************)
(* shipctl: deploy / rollback of an ECS service with a bounded deployment  *)
(* history kept in one SSM parameter.                                      *)
(*                                                                         *)
(* The specifications share the history-manager operators and the command  *)
(* steps:                                                                  *)
(*   HistSpec        the history manager alone: PushState / UpdateState /  *)
(*                   Pull called with arbitrary arguments on one key;      *)
(*   WritersSpec     two PushState calls interleaved request by request;   *)
(*   Spec            the deploy and rollback commands run one after the    *)
(*                   other, one step per remote API call, plus the ECS     *)
(*                   scheduler;                                            *)
(*   ConcurrentSpec  two invocations interleaved against the same          *)
(*                   (cluster, serviceName), from a twice-deployed service *)
(*                   (a state Spec reaches);                               *)
(*   TwoRunsSpec     two invocations in a row after a deploy that          *)
(*                   succeeded or was aborted;                             *)
(*   ScaleSpec       one invocation while another actor changes the        *)
(*                   service's desired count;                              *)
(*   FairSpec        one invocation under the fairness of its ticker;      *)
(*   CliSpec         one process running deploy, rollback or oneshot;      *)
(*   ResolverSpec, PrepareSpec, OneshotSpec                                *)
(*                   specifyRevision, the preparation of a deploy and the  *)
(*                   oneshot command, each on its own.                     *)
(***************************************************************************)
EXTENDS Integers, Sequences, FiniteSets, TLC

VARIABLES
    param,        \* the SSM parameter deploy-state.<cluster>.<service>: whether it exists, and its JSON value
    lastCall,     \* HistSpec: the last history-manager call, its arguments, its error and the history before it
    pushLog,      \* HistSpec: the records pushed by the successful PushState calls so far, while pushOnly
    pushOnly,     \* HistSpec: no UpdateState has written the parameter yet
    ecs,          \* the ECS service: task definition revision, desired/running count, active deployments
    latest,       \* the highest task definition revision registered in the family
    pc,           \* per invocation slot: position in execute()
    cmd,          \* per invocation slot: "deploy", "rollback" or "none"
    flagRevision, \* per slot: the --revision flag (deploy)
    service,      \* per slot: the *ecs.Service fetched by the initial describeService
    taskDef,      \* per slot: revision of the task definition fetched by describeTaskDefinition
    registered,   \* per slot: revision of registerdTaskDef (deploy)
    states,       \* per slot: the history pulled by rollback
    pulled,       \* per slot: the history pulled inside PushState / UpdateState, before the write
    polled,       \* per slot: the service state fetched by the last tick of waitUpdateService
    err,          \* per slot: the error returned by execute ("nil" when none)
    sent,         \* per slot: the UpdateService requests issued by the invocation, with the service's
                  \* desired count and active deployments at that moment and whether the history then
                  \* held a Pending record of the target
    writes,       \* per slot: number of PutParameter requests issued by the invocation
    concurrent,   \* per slot: another invocation was running at some moment of this one
    invocations,  \* number of invocations started so far
    flags,        \* per slot: which of --cluster, --service-name, --image were given, and the region
                  \* getAWSRegion returned ("" when none)
    trace,        \* per slot: the steps execute has run, in order, each with whether it succeeded
                  \* (ticks of waitUpdateService that merely keep waiting are entered once)
    notified,     \* per slot: the notifications emitted by log.success and log.fail, in order
    env,          \* the environment of the process: AWS_REGION and AWS_DEFAULT_REGION ("" when unset)
    writers,      \* WritersSpec: per caller, a PushState call in progress: its arguments, the history
                  \* it pulled, its error and the rank of its PutParameter among the writes
    resolve,      \* ResolverSpec: one call of specifyRevision, its arguments and what it returned
    oneshot,      \* OneshotSpec: the oneshot invocation: flags, position, waitTask's locals, error, exit status
    task,         \* OneshotSpec: the ECS task started by runTask
    prep          \* PrepareSpec: deploy between describeTaskDefinition and waitUpdateService: the task
                  \* definition's containers, the --image options, the draft, the loop index, the ECR
                  \* requests (calls) and the ECS and history requests (issued), each with its outcome

histVars == <<param, lastCall, pushLog, pushOnly>>
ecsVars == <<ecs, latest>>
cmdVars == <<pc, cmd, flagRevision, service, taskDef, registered, states, pulled, polled, err, sent, writes,
             concurrent, invocations, flags, trace, notified>>
auxVars == <<resolve, oneshot, task, prep, env, writers>>
vars == <<param, lastCall, pushLog, pushOnly, ecs, latest, pc, cmd, flagRevision, service, taskDef, registered,
          states, pulled, polled, err, sent, writes, concurrent, invocations, flags, trace, notified,
          resolve, oneshot, task, prep, env, writers>>

(***************************************************************************)
(* Bounds                                                                  *)
(***************************************************************************)
MaxHistRevision == 2
MaxPushes == 6
MaxInvocations == 4
MaxFlagRevision == 1
MaxArnLen == 4
MaxResolveRevision == 10
MaxSignals == 2
MaxContainers == 2
MaxDesiredCount == 2

(***************************************************************************)
(* History manager                                                         *)
(***************************************************************************)
defaultHistoryLimit == 5

deployStatus_UNKNOWN == 0
deployStatus_PENDING == 1
deployStatus_DEPLOYED == 2

\* DescribeParameters finds no parameter of that name
NoParam == [exists |-> FALSE, value |-> <<>>]

\* fmt.Sprintf("deploy: %d -> %d", a, b) / fmt.Sprintf("rollback: %d -> %d", a, b)
Cause(kind, from, to) == <<kind, ": ", from, " -> ", to>>

deployState(revision, status, cause) ==
    [Revision |-> revision, Status |-> status, Cause |-> cause]

\* json.Marshal([]*deployState): one object per record, keys in field order
Marshal(state) ==
    [i \in 1..Len(state) |->
        <<"revision", state[i].Revision, "status", state[i].Status, "cause", state[i].Cause>>]

\* json.Decoder.Decode(&states)
Unmarshal(v) ==
    [i \in 1..Len(v) |-> deployState(v[i][2], v[i][4], v[i][6])]

\* Pull: DescribeParameters, then GetParameters and decode; ok = FALSE is an API error
Pull(p, ok) ==
    IF ~ok THEN [err |-> "api", states |-> <<>>]
    ELSE IF ~p.exists THEN [err |-> "nil", states |-> <<>>]
    ELSE [err |-> "nil", states |-> Unmarshal(p.value)]

\* a store whose write appends the newest record to the value it holds at that moment
PushAppending(p, v, ok) ==
    IF ok /\ p.exists /\ v # <<>>
    THEN [err |-> "nil", param |-> [exists |-> TRUE, value |-> Append(p.value, v[Len(v)])],
          put |-> TRUE]
    ELSE IF ok THEN [err |-> "nil", param |-> [exists |-> TRUE, value |-> v], put |-> TRUE]
    ELSE [err |-> "api", param |-> p, put |-> TRUE]

\* Push: PutParameter with Overwrite; ok = FALSE is an API error
Push(p, v, ok) ==
    IF ok THEN [err |-> "nil", param |-> [exists |-> TRUE, value |-> v], put |-> TRUE]
    ELSE [err |-> "api", param |-> p, put |-> TRUE]

\* a PushState that cuts the history at the wrong end
PushStateValueKeepingOldest(state, revision, cause) ==
    LET appended == Append(state, deployState(revision, deployStatus_PENDING, cause))
        to == IF Len(appended) > defaultHistoryLimit THEN defaultHistoryLimit ELSE Len(appended)
    IN Marshal(SubSeq(appended, 1, to))

\* a PushState that records the revision as Deployed straight away
PushStateValueAsDeployed(state, revision, cause) ==
    LET appended == Append(state, deployState(revision, deployStatus_DEPLOYED, cause))
        from == IF Len(appended) > defaultHistoryLimit
                THEN Len(appended) - defaultHistoryLimit ELSE 0
    IN Marshal(SubSeq(appended, from + 1, Len(appended)))

\* PushState between its Pull and its Push: append a Pending record, keep the last HistoryLimit
PushStateValue(state, revision, cause) ==
    LET appended == Append(state, deployState(revision, deployStatus_PENDING, cause))
        from == IF Len(appended) > defaultHistoryLimit
                THEN Len(appended) - defaultHistoryLimit ELSE 0
    IN Marshal(SubSeq(appended, from + 1, Len(appended)))

\* the legacy statePusher refused a revision already in the history
PushStateRejectingDuplicates(p, revision, cause, pullOk, pushOk) ==
    LET got == Pull(p, pullOk) IN
    IF got.err # "nil" THEN [err |-> got.err, param |-> p, put |-> FALSE]
    ELSE IF \E i \in 1..Len(got.states) : got.states[i].Revision = revision
         THEN [err |-> "validation", param |-> p, put |-> FALSE]
         ELSE Push(p, PushStateValue(got.states, revision, cause), pushOk)

PushState(p, revision, cause, pullOk, pushOk) ==
    LET got == Pull(p, pullOk) IN
    IF got.err # "nil" THEN [err |-> got.err, param |-> p, put |-> FALSE]
    ELSE Push(p, PushStateValue(got.states, revision, cause), pushOk)

\* an UpdateState that matches the revision whatever the status (the legacy statePusher)
UpdateStateIndexAnyStatus(state, revision) ==
    LET hits == {i \in 1..Len(state) : state[i].Revision = revision}
    IN IF hits = {} THEN 0 ELSE CHOOSE i \in hits : \A j \in hits : i <= j

\* an UpdateState whose loop runs from the newest record to the oldest
UpdateStateIndexNewest(state, revision) ==
    LET hits == {i \in 1..Len(state) :
                    state[i].Revision = revision /\ state[i].Status = deployStatus_PENDING}
    IN IF hits = {} THEN 0 ELSE CHOOSE i \in hits : \A j \in hits : i >= j

\* the index UpdateState's range loop stops at: the first record of that revision that is Pending; 0 if none
UpdateStateIndex(state, revision) ==
    LET hits == {i \in 1..Len(state) :
                    state[i].Revision = revision /\ state[i].Status = deployStatus_PENDING}
    IN IF hits = {} THEN 0 ELSE CHOOSE i \in hits : \A j \in hits : i <= j

\* an UpdateState whose loop does not stop at the first match
UpdateStateValueEveryMatch(state, i) ==
    Marshal([k \in 1..Len(state) |->
        IF state[k].Revision = state[i].Revision /\ state[k].Status = deployStatus_PENDING
        THEN [state[k] EXCEPT !.Status = deployStatus_DEPLOYED] ELSE state[k]])

\* UpdateState between its Pull and its Push
UpdateStateValue(state, i) ==
    Marshal([state EXCEPT ![i].Status = deployStatus_DEPLOYED])

UpdateState(p, revision, pullOk, pushOk) ==
    LET got == Pull(p, pullOk)
        i == UpdateStateIndex(got.states, revision)
    IN IF got.err # "nil" THEN [err |-> got.err, param |-> p, put |-> FALSE]
       ELSE IF i = 0 THEN [err |-> "can not found a current state", param |-> p, put |-> FALSE]
       ELSE Push(p, UpdateStateValue(got.states, i), pushOk)

\* the history a Pull that succeeds returns
History == Pull(param, TRUE).states

(***************************************************************************)
(* HistSpec: the history manager called directly on one key                *)
(***************************************************************************)
HistRevisions == 1..MaxHistRevision

HistCauses(revision) ==
    {Cause("deploy", revision - 1, revision)}

NoCall == [op |-> "none", revision |-> 0, cause |-> <<>>, err |-> "nil", put |-> FALSE,
           before |-> <<>>, out |-> <<>>]

NoService == [TaskDefinition |-> 0, DesiredCount |-> 0, RunningCount |-> 0, Deployments |-> 0]

\* the fields of the *ecs.Service fetched at the start that execute reads afterwards
NoServiceRead == [TaskDefinition |-> 0, DesiredCount |-> 0, Deployments |-> 0]

ServiceRead(svc) ==
    [TaskDefinition |-> svc.TaskDefinition, DesiredCount |-> svc.DesiredCount,
     Deployments |-> svc.Deployments]

Slots == {1, 2}

\* no flags parsed yet
NoArgs == [cluster |-> FALSE, serviceName |-> FALSE, images |-> FALSE, region |-> ""]

\* an environment that names a region in both variables
BothRegions == [AWS_REGION |-> "us-east-1", AWS_DEFAULT_REGION |-> "eu-west-1"]

\* the environments a process is started in
Envs == [AWS_REGION : {"", "us-east-1"}, AWS_DEFAULT_REGION : {"", "eu-west-1"}]

\* no PushState call by that caller yet
NoWriter == [pc |-> "idle", revision |-> 0, cause |-> <<>>, pulled |-> <<>>, err |-> "nil", rank |-> 0]

InitCmd ==
    /\ pc = [s \in Slots |-> "idle"]
    /\ cmd = [s \in Slots |-> "none"]
    /\ flagRevision = [s \in Slots |-> 0]
    /\ service = [s \in Slots |-> NoServiceRead]
    /\ taskDef = [s \in Slots |-> 0]
    /\ registered = [s \in Slots |-> 0]
    /\ states = [s \in Slots |-> <<>>]
    /\ pulled = [s \in Slots |-> <<>>]
    /\ polled = [s \in Slots |-> NoService]
    /\ err = [s \in Slots |-> "nil"]
    /\ sent = [s \in Slots |-> <<>>]
    /\ writes = [s \in Slots |-> 0]
    /\ concurrent = [s \in Slots |-> FALSE]
    /\ invocations = 0
    /\ flags = [s \in Slots |-> NoArgs]
    /\ trace = [s \in Slots |-> <<>>]
    /\ notified = [s \in Slots |-> <<>>]

InitEcs ==
    /\ ecs = [TaskDefinition |-> 1, DesiredCount |-> 1, RunningCount |-> 1, Deployments |-> 1]
    /\ latest = 1

InitHist ==
    /\ param = NoParam
    /\ lastCall = NoCall
    /\ pushLog = <<>>
    /\ pushOnly = TRUE

\* no call of specifyRevision on its own
NoResolve == [revision |-> 0, arn |-> <<>>, called |-> FALSE, out |-> <<>>, err |-> "nil"]

\* a *int64 exit code: nil, or a value
NilExitCode == [isNil |-> TRUE, v |-> 0]

ExitCodeOf(c) == [isNil |-> FALSE, v |-> c]

\* no task yet
NoTask == [LastStatus |-> "NONE", ExitCode |-> NilExitCode, stopRequested |-> FALSE]

\* no oneshot invocation yet
NoOneshot ==
    [pc |-> "idle",
     cluster |-> FALSE, taskDefName |-> FALSE, command |-> FALSE, region |-> "",
     issued |-> {}, runs |-> 0,
     label |-> "none", case |-> "none", signals |-> 0, stops |-> 0,
     re |-> [LastStatus |-> "NONE", ExitCode |-> NilExitCode],
     returned |-> "none", err |-> "nil", exit |-> 0]

\* no deploy preparation on its own
NoPrep == [pc |-> "idle", containers |-> <<>>, images |-> <<>>, drafted |-> FALSE, draft |-> <<>>,
           i |-> 0, calls |-> <<>>, issued |-> <<>>, registered |-> FALSE, err |-> "nil"]

InitAux ==
    /\ resolve = NoResolve
    /\ oneshot = NoOneshot
    /\ task = NoTask
    /\ prep = NoPrep
    /\ writers = [w \in Slots |-> NoWriter]

Init == InitHist /\ InitEcs /\ InitCmd /\ InitAux /\ env = BothRegions

\* the outcomes of the PutParameter request of a call: it succeeds or fails when the call
\* gets as far as issuing it, and has no outcome otherwise
PushOutcomes(issued) == IF issued THEN BOOLEAN ELSE {TRUE}

\* a caller invokes PushState(revision, cause)
CallPushState ==
    \E revision \in HistRevisions, pullOk \in BOOLEAN :
      \E cause \in HistCauses(revision), pushOk \in PushOutcomes(pullOk) :
        LET r == PushState(param, revision, cause, pullOk, pushOk) IN
        /\ pushOnly => Len(pushLog) < MaxPushes
        /\ param' = r.param
        /\ lastCall' = [op |-> "PushState", revision |-> revision, cause |-> cause,
                        err |-> r.err, put |-> r.put, before |-> History, out |-> <<>>]
        /\ pushLog' = IF r.err = "nil" /\ pushOnly
                      THEN Append(pushLog, deployState(revision, deployStatus_PENDING, cause))
                      ELSE pushLog
        /\ UNCHANGED pushOnly
        /\ UNCHANGED <<auxVars, ecsVars, cmdVars>>

\* a caller invokes UpdateState(revision)
CallUpdateState ==
    \E revision \in HistRevisions, pullOk \in BOOLEAN :
      \E pushOk \in PushOutcomes(pullOk /\ UpdateStateIndex(History, revision) # 0) :
        LET r == UpdateState(param, revision, pullOk, pushOk) IN
        /\ param' = r.param
        /\ lastCall' = [op |-> "UpdateState", revision |-> revision, cause |-> <<>>,
                        err |-> r.err, put |-> r.put, before |-> History, out |-> <<>>]
        /\ pushLog' = IF r.err = "nil" THEN <<>> ELSE pushLog
        /\ pushOnly' = (pushOnly /\ r.err # "nil")
        /\ UNCHANGED <<auxVars, ecsVars, cmdVars>>

\* a caller invokes Pull()
CallPull ==
    \E ok \in BOOLEAN :
        LET r == Pull(param, ok) IN
        /\ lastCall' = [op |-> "Pull", revision |-> 0, cause |-> <<>>,
                        err |-> r.err, put |-> FALSE, before |-> History, out |-> r.states]
        /\ UNCHANGED <<auxVars, param, pushLog, pushOnly, ecsVars, cmdVars>>

HistNext == CallPushState \/ CallUpdateState \/ CallPull

HistSpec == Init /\ [][HistNext]_vars

(***************************************************************************)
(* Spec: the deploy and rollback commands against one (cluster, service)   *)
(***************************************************************************)
\* strings are sequences of characters
Digit == {"0", "1", "2", "3", "4", "5", "6", "7", "8", "9"}

NonZeroDigit == Digit \ {"0"}

DigitChar(d) == <<"0", "1", "2", "3", "4", "5", "6", "7", "8", "9">>[d + 1]

DigitValue(c) == CHOOSE d \in 0..9 : DigitChar(d) = c

\* fmt.Sprintf("%d", n)
RECURSIVE Itoa(_)
Itoa(n) ==
    IF n < 0 THEN <<"-">> \o Itoa(0 - n)
    ELSE IF n < 10 THEN <<DigitChar(n)>>
    ELSE Itoa(n \div 10) \o <<DigitChar(n % 10)>>

\* the regexp (.*):[1-9][0-9]*$ matches arn from position i to the end, its group
\* being arn[i..j-1]: no newline in the group, ":" at j, then a digit 1-9, then digits
revisionMatch(arn, i, j) ==
    /\ i <= j
    /\ j < Len(arn)
    /\ \A k \in i..(j - 1) : arn[k] # "\n"
    /\ arn[j] = ":"
    /\ arn[j + 1] \in NonZeroDigit
    /\ \A k \in (j + 2)..Len(arn) : arn[k] \in Digit

\* a specifyRevision without the early return for revision <= 0
specifyRevisionAlways(revision, arn) ==
    LET starts == {i \in 1..Len(arn) : \E j \in i..Len(arn) : revisionMatch(arn, i, j)}
    IN IF starts = {} THEN [arn |-> arn, err |-> "nil"]
       ELSE LET i == CHOOSE x \in starts : \A y \in starts : x <= y
                ends == {j \in i..Len(arn) : revisionMatch(arn, i, j)}
                j == CHOOSE x \in ends : \A y \in ends : x >= y
            IN [arn |-> SubSeq(arn, 1, j - 1) \o <<":">> \o Itoa(revision), err |-> "nil"]

\* specifyRevision: revision <= 0 returns arn as it is; otherwise ReplaceAllString of the
\* leftmost match (its group taken greedily) by "${1}:<revision>", arn as it is when
\* nothing matches; the error is always nil
specifyRevision(revision, arn) ==
    LET starts == {i \in 1..Len(arn) : \E j \in i..Len(arn) : revisionMatch(arn, i, j)}
    IN IF revision <= 0 THEN [arn |-> arn, err |-> "nil"]
       ELSE IF starts = {} THEN [arn |-> arn, err |-> "nil"]
       ELSE LET i == CHOOSE x \in starts : \A y \in starts : x <= y
                ends == {j \in i..Len(arn) : revisionMatch(arn, i, j)}
                j == CHOOSE x \in ends : \A y \in ends : x >= y
            IN [arn |-> SubSeq(arn, 1, j - 1) \o <<":">> \o Itoa(revision), err |-> "nil"]

\* *service.TaskDefinition, the ARN of the family's revision n
TaskDefinitionArn(n) == <<"f", ":">> \o Itoa(n)

\* the revision DescribeTaskDefinition looks up for an ARN family:<digits>
RECURSIVE RevisionOfArn(_)
RevisionOfArn(arn) ==
    IF Len(arn) = 0 \/ arn[Len(arn)] \notin Digit THEN 0
    ELSE 10 * RevisionOfArn(SubSeq(arn, 1, Len(arn) - 1)) + DigitValue(arn[Len(arn)])

\* the --revision values tried: none, or a registered revision
FlagRevisions == 0..MaxFlagRevision

Running(s) == pc[s] \notin {"idle", "done"}

\* a waitUpdateService that waits for the deployments to be gone
ConvergedWhenDrained(svc) == svc.Deployments = 0 /\ svc.RunningCount = svc.DesiredCount

\* a waitUpdateService that looks at the task counts only
ConvergedOnCountsAlone(svc) == svc.RunningCount = svc.DesiredCount

\* a waitUpdateService that looks at the number of deployments only
ConvergedOnDeploymentsAlone(svc) == svc.Deployments = 1

\* waitUpdateService's exit test on the service it fetched
Converged(svc) == svc.Deployments = 1 /\ svc.RunningCount = svc.DesiredCount

\* a guard that lets one rollout in progress pass
DeployingBeyondTwo(svc) == svc.Deployments > 2

\* the guard of deploy and rollback on the service fetched at the start
Deploying(svc) == svc.Deployments > 1

\* a rollback that goes back to the newest record before the last that is Deployed
\* (to the record before the last when none is)
prevStateLastDeployed(s) ==
    LET n == Len(states[s])
        deployed == {i \in 1..(n - 1) : states[s][i].Status = deployStatus_DEPLOYED}
    IN IF deployed = {} THEN states[s][n - 1]
       ELSE states[s][CHOOSE i \in deployed : \A j \in deployed : i >= j]

\* a rollback that takes the last record for the previous one
prevStateAsLast(s) == states[s][Len(states[s])]

\* rollback: prevState := states[len(states)-2]
prevState(s) == states[s][Len(states[s]) - 1]

\* rollback: state := states[len(states)-1]
currentState(s) == states[s][Len(states[s])]

\* a PushState call given the revision of the task definition the deploy started from
PushStateArgumentsFromSource(s) ==
    IF cmd[s] = "deploy"
    THEN [revision |-> taskDef[s], cause |-> Cause("deploy", taskDef[s], registered[s])]
    ELSE [revision |-> prevState(s).Revision,
          cause |-> Cause("rollback", currentState(s).Revision, prevState(s).Revision)]

\* the arguments of the PushState call: deploy pushes the registered revision,
\* rollback the revision of prevState
PushStateArguments(s) ==
    IF cmd[s] = "deploy"
    THEN [revision |-> registered[s], cause |-> Cause("deploy", taskDef[s], registered[s])]
    ELSE [revision |-> prevState(s).Revision,
          cause |-> Cause("rollback", currentState(s).Revision, prevState(s).Revision)]

\* the step just run entered in the trace; a tick of waitUpdateService that repeats the
\* entry before it is not entered again
Logged(t, step, ok) ==
    LET entry == [step |-> step, ok |-> ok]
    IN IF step = "waitUpdateService" /\ t # <<>> /\ t[Len(t)] = entry THEN t ELSE Append(t, entry)

\* logWithType(message, messageType) of the logger made from f.cluster and f.serviceName
Notification(s, messageType) ==
    [type |-> messageType, cluster |-> flags[s].cluster, serviceName |-> flags[s].serviceName]

\* return err: execute ends. With nil it has called l.success just before; otherwise RunE
\* calls log.fail. A run-time panic ("panic") ends the process inside the step instead.
Return(s, e) ==
    /\ pc' = [pc EXCEPT ![s] = "done"]
    /\ err' = [err EXCEPT ![s] = e]
    /\ trace' = [trace EXCEPT ![s] = Logged(@, pc[s], e = "nil")]
    /\ notified' = [notified EXCEPT ![s] =
                        IF e = "panic" THEN @
                        ELSE Append(@, Notification(s, IF e = "nil" THEN "good" ELSE "danger"))]

Goto(s, label) ==
    /\ pc' = [pc EXCEPT ![s] = label]
    /\ trace' = [trace EXCEPT ![s] = Logged(@, pc[s], TRUE)]
    /\ UNCHANGED <<err, notified>>

\* a getAWSRegion that looks at AWS_DEFAULT_REGION first
getAWSRegionDefaultFirst(e) ==
    IF e.AWS_DEFAULT_REGION # "" THEN e.AWS_DEFAULT_REGION
    ELSE IF e.AWS_REGION # "" THEN e.AWS_REGION
    ELSE ""

\* getAWSRegion: AWS_REGION when it is set, else AWS_DEFAULT_REGION, else ""
getAWSRegion(e) ==
    IF e.AWS_REGION # "" THEN e.AWS_REGION
    ELSE IF e.AWS_DEFAULT_REGION # "" THEN e.AWS_DEFAULT_REGION
    ELSE ""

\* the checks that open execute: deploy needs --cluster, --service-name, an --image and
\* a region; rollback takes no --image
openingChecks(command, a) ==
    IF ~a.cluster THEN "--cluster is required"
    ELSE IF ~a.serviceName THEN "--service-name is required"
    ELSE IF command = "deploy" /\ ~a.images THEN "--image is required"
    ELSE IF a.region = "" THEN "AWS region is not found"
    ELSE "nil"

\* a new invocation of `command` in slot s (slot 2 is used once slot 1 has been) with the
\* flags a: RunE makes the logger and calls execute, which returns the first opening
\* check that fails, and otherwise goes on to its first request
Start(s, command, first, a) ==
    /\ ~Running(s)
    /\ s = 1 \/ pc[1] # "idle"
    /\ invocations < MaxInvocations
    /\ invocations' = invocations + 1
    /\ cmd' = [cmd EXCEPT ![s] = command]
    /\ flags' = [flags EXCEPT ![s] = a]
    /\ LET e == openingChecks(command, a) IN
        /\ pc' = [pc EXCEPT ![s] = IF e = "nil" THEN first ELSE "done"]
        /\ err' = [err EXCEPT ![s] = e]
        /\ notified' = [notified EXCEPT ![s] =
                            IF e = "nil" THEN <<>>
                            ELSE <<[type |-> "danger", cluster |-> a.cluster,
                                    serviceName |-> a.serviceName]>>]
    /\ trace' = [trace EXCEPT ![s] = <<>>]
    /\ service' = [service EXCEPT ![s] = NoServiceRead]
    /\ polled' = [polled EXCEPT ![s] = NoService]
    /\ taskDef' = [taskDef EXCEPT ![s] = 0]
    /\ registered' = [registered EXCEPT ![s] = 0]
    /\ states' = [states EXCEPT ![s] = <<>>]
    /\ pulled' = [pulled EXCEPT ![s] = <<>>]
    /\ sent' = [sent EXCEPT ![s] = <<>>]
    /\ writes' = [writes EXCEPT ![s] = 0]
    /\ concurrent' = [t \in Slots |->
                        IF t = s THEN \E u \in Slots \ {s} : Running(u)
                        ELSE concurrent[t] \/ Running(t)]
    /\ UNCHANGED <<auxVars, histVars, ecsVars>>

\* shipctl deploy --cluster c --service-name n --image i [--revision r]
StartDeploy(s) ==
    \E r \in FlagRevisions, cluster, serviceName, images \in BOOLEAN :
        /\ Start(s, "deploy", "describeService",
                 [cluster |-> cluster, serviceName |-> serviceName, images |-> images,
                  region |-> getAWSRegion(env)])
        /\ flagRevision' = [flagRevision EXCEPT ![s] = r]

\* shipctl rollback --cluster c --service-name n
StartRollback(s) ==
    \E cluster, serviceName \in BOOLEAN :
        /\ Start(s, "rollback", "Pull",
                 [cluster |-> cluster, serviceName |-> serviceName, images |-> FALSE,
                  region |-> getAWSRegion(env)])
        /\ flagRevision' = [flagRevision EXCEPT ![s] = 0]

\* describeService, then the guard on the active deployments (deploy and rollback)
DescribeService(s) ==
    /\ pc[s] = "describeService"
    /\ \E outcome \in {"ok", "api", "service is not found"} :
        IF outcome # "ok" THEN Return(s, outcome) /\ UNCHANGED service
        ELSE /\ service' = [service EXCEPT ![s] = ServiceRead(ecs)]
             /\ IF Deploying(ServiceRead(ecs))
                THEN Return(s, IF cmd[s] = "deploy" THEN "is currently deployed"
                               ELSE "is currently deploying")
                ELSE Goto(s, "describeTaskDefinition")
    /\ UNCHANGED <<auxVars, histVars, ecsVars, cmd, flags, flagRevision, taskDef, registered, states, pulled,
                   polled, sent, writes, concurrent, invocations>>

\* specifyRevision and describeTaskDefinition: --revision for deploy, prevState.Revision for rollback
DescribeTaskDefinition(s) ==
    /\ pc[s] = "describeTaskDefinition"
    /\ LET want == IF cmd[s] = "deploy" THEN flagRevision[s]
                   ELSE prevState(s).Revision
           arn == RevisionOfArn(
                      specifyRevision(want, TaskDefinitionArn(service[s].TaskDefinition)).arn)
       IN \E ok \in BOOLEAN :
            IF ok /\ arn <= latest
            THEN /\ taskDef' = [taskDef EXCEPT ![s] = arn]
                 /\ Goto(s, IF cmd[s] = "deploy" THEN "tagDockerImage" ELSE "updateService")
            ELSE Return(s, "api") /\ UNCHANGED taskDef
    /\ UNCHANGED <<auxVars, histVars, ecsVars, cmd, flags, flagRevision, service, registered, states, pulled,
                   polled, sent, writes, concurrent, invocations>>

\* deploy: createNewTaskDefinition and the tagDockerImage loop, as one step that succeeds
\* or fails (PrepareSpec takes it request by request): an ECR request fails, a container's
\* repository has no --image option, or an untagged image or an empty BatchGetImage
\* result raises a run-time panic
TagDockerImages(s) ==
    /\ pc[s] = "tagDockerImage"
    /\ \E outcome \in {"ok", "api", "can not found a image option", "panic"} :
        IF outcome = "ok" THEN Goto(s, "registerTaskDefinition") ELSE Return(s, outcome)
    /\ UNCHANGED <<auxVars, histVars, ecsVars, cmd, flags, flagRevision, service, taskDef, registered, states,
                   pulled, polled, sent, writes, concurrent, invocations>>

\* deploy: registerTaskDefinition allocates the family's next revision
RegisterTaskDefinition(s) ==
    /\ pc[s] = "registerTaskDefinition"
    /\ \E ok \in BOOLEAN :
        IF ok
        THEN /\ latest' = latest + 1
             /\ registered' = [registered EXCEPT ![s] = latest + 1]
             /\ Goto(s, "PushState.Pull")
        ELSE Return(s, "api") /\ UNCHANGED <<latest, registered>>
    /\ UNCHANGED <<auxVars, histVars, ecs, cmd, flags, flagRevision, service, taskDef, states, pulled, polled,
                   sent, writes, concurrent, invocations>>

\* the Pull that opens PushState and UpdateState
ManagerPull(s) ==
    /\ pc[s] \in {"PushState.Pull", "UpdateState.Pull"}
    /\ \E ok \in BOOLEAN :
        LET got == Pull(param, ok) IN
        IF got.err # "nil" THEN Return(s, got.err) /\ UNCHANGED pulled
        ELSE /\ pulled' = [pulled EXCEPT ![s] = got.states]
             /\ Goto(s, IF pc[s] = "PushState.Pull" THEN "PushState.Push" ELSE "UpdateState.Push")
    /\ UNCHANGED <<auxVars, histVars, ecsVars, cmd, flags, flagRevision, service, taskDef, registered, states,
                   polled, sent, writes, concurrent, invocations>>

\* a rollback that goes on to UpdateState after its PushState, as deploy does after its wait
PushStatePushThenUpdate(s) ==
    /\ pc[s] = "PushState.Push"
    /\ LET pushed == PushStateArguments(s)
       IN \E ok \in BOOLEAN :
            LET put == Push(param, PushStateValue(pulled[s], pushed.revision, pushed.cause), ok) IN
            /\ param' = put.param
            /\ writes' = [writes EXCEPT ![s] = @ + 1]
            /\ pulled' = [pulled EXCEPT ![s] = <<>>]
            /\ IF put.err # "nil" THEN Return(s, put.err)
               ELSE IF cmd[s] = "deploy" THEN Goto(s, "updateService")
               ELSE Goto(s, "UpdateState.Pull")
    /\ UNCHANGED <<auxVars, lastCall, pushLog, pushOnly, ecsVars, cmd, flags, flagRevision, service,
                   taskDef, registered, states, polled, sent, concurrent, invocations>>

\* a rollback that ends after its wait without a PushState
PushStatePushByDeployOnly(s) ==
    /\ pc[s] = "PushState.Push"
    /\ LET pushed == PushStateArguments(s)
       IN \E ok \in BOOLEAN :
            LET put == IF cmd[s] = "deploy"
                       THEN Push(param, PushStateValue(pulled[s], pushed.revision, pushed.cause), ok)
                       ELSE [err |-> IF ok THEN "nil" ELSE "api", param |-> param, put |-> FALSE]
            IN /\ param' = put.param
               /\ writes' = [writes EXCEPT ![s] = IF put.put THEN @ + 1 ELSE @]
               /\ pulled' = [pulled EXCEPT ![s] = <<>>]
               /\ IF put.err # "nil" THEN Return(s, put.err)
                  ELSE IF cmd[s] = "deploy" THEN Goto(s, "updateService")
                  ELSE Return(s, "nil")
    /\ UNCHANGED <<auxVars, lastCall, pushLog, pushOnly, ecsVars, cmd, flags, flagRevision, service,
                   taskDef, registered, states, polled, sent, concurrent, invocations>>

\* the rest of PushState: deploy pushes the registered revision before it submits,
\* rollback pushes prevState.Revision after the service converged
PushStatePush(s) ==
    /\ pc[s] = "PushState.Push"
    /\ LET args == PushStateArguments(s)
       IN \E ok \in BOOLEAN :
            LET put == Push(param, PushStateValue(pulled[s], args.revision, args.cause), ok) IN
            /\ param' = put.param
            /\ writes' = [writes EXCEPT ![s] = @ + 1]
            /\ pulled' = [pulled EXCEPT ![s] = <<>>]
            /\ IF put.err # "nil" THEN Return(s, put.err)
               ELSE IF cmd[s] = "deploy" THEN Goto(s, "updateService")
               ELSE Return(s, "nil")
    /\ UNCHANGED <<auxVars, lastCall, pushLog, pushOnly, ecsVars, cmd, flags, flagRevision, service, taskDef,
                   registered, states, polled, sent, concurrent, invocations>>

\* an updateService that is sent again when it fails
UpdateServiceCallRetrying(s) ==
    /\ pc[s] = "updateService"
    /\ LET target == IF cmd[s] = "deploy" THEN registered[s] ELSE taskDef[s]
           request == [TaskDefinition |-> target,
                       DesiredCount |-> service[s].DesiredCount,
                       current |-> ecs.DesiredCount,
                       active |-> ecs.Deployments,
                       recorded |-> \E i \in 1..Len(History) :
                                        /\ History[i].Revision = target
                                        /\ History[i].Status = deployStatus_PENDING]
       IN /\ sent' = [sent EXCEPT ![s] = Append(@, request)]
          /\ \E ok \in BOOLEAN :
                IF ok
                THEN /\ ecs' = [ecs EXCEPT !.TaskDefinition = target,
                                           !.DesiredCount = service[s].DesiredCount,
                                           !.Deployments = @ + 1]
                     /\ Goto(s, "waitUpdateService")
                ELSE /\ trace' = [trace EXCEPT ![s] = Logged(@, pc[s], FALSE)]
                     /\ UNCHANGED <<ecs, pc, err, notified>>
    /\ UNCHANGED <<auxVars, histVars, latest, cmd, flags, flagRevision, service, taskDef, registered,
                   states, pulled, polled, writes, concurrent, invocations>>

\* updateService: the task definition, with the desired count of the service fetched at the start
UpdateServiceCall(s) ==
    /\ pc[s] = "updateService"
    /\ LET target == IF cmd[s] = "deploy" THEN registered[s] ELSE taskDef[s]
           request == [TaskDefinition |-> target,
                       DesiredCount |-> service[s].DesiredCount,
                       current |-> ecs.DesiredCount,
                       active |-> ecs.Deployments,
                       recorded |-> \E i \in 1..Len(History) :
                                        /\ History[i].Revision = target
                                        /\ History[i].Status = deployStatus_PENDING]
       IN /\ sent' = [sent EXCEPT ![s] = Append(@, request)]
          /\ \E ok \in BOOLEAN :
                IF ok
                THEN /\ ecs' = [ecs EXCEPT !.TaskDefinition = target,
                                           !.DesiredCount = service[s].DesiredCount,
                                           !.Deployments = @ + 1]
                     /\ Goto(s, "waitUpdateService")
                ELSE Return(s, "api") /\ UNCHANGED ecs
    /\ UNCHANGED <<auxVars, histVars, latest, cmd, flags, flagRevision, service, taskDef, registered, states,
                   pulled, polled, writes, concurrent, invocations>>

\* a waitUpdateService that tries again on the next tick when describeService fails
WaitUpdateServiceTickRetrying(s) ==
    /\ pc[s] = "waitUpdateService"
    /\ \E outcome \in {"ok", "api", "service is not found"} :
        IF outcome # "ok"
        THEN /\ trace' = [trace EXCEPT ![s] = Logged(@, pc[s], FALSE)]
             /\ UNCHANGED <<polled, pc, err, notified>>
        ELSE /\ polled' = [polled EXCEPT ![s] = ecs]
             /\ IF Converged(ecs)
                THEN Goto(s, IF cmd[s] = "deploy" THEN "UpdateState.Pull" ELSE "PushState.Pull")
                ELSE Goto(s, "waitUpdateService")
    /\ UNCHANGED <<auxVars, histVars, ecsVars, cmd, flags, flagRevision, service, taskDef, registered,
                   states, pulled, sent, writes, concurrent, invocations>>

\* one tick of waitUpdateService: describeService, whose error is returned at once
WaitUpdateServiceTick(s) ==
    /\ pc[s] = "waitUpdateService"
    /\ \E outcome \in {"ok", "api", "service is not found"} :
        IF outcome # "ok" THEN Return(s, outcome) /\ UNCHANGED polled
        ELSE /\ polled' = [polled EXCEPT ![s] = ecs]
             /\ IF Converged(ecs)
                THEN Goto(s, IF cmd[s] = "deploy" THEN "UpdateState.Pull" ELSE "PushState.Pull")
                ELSE Goto(s, "waitUpdateService")
    /\ UNCHANGED <<auxVars, histVars, ecsVars, cmd, flags, flagRevision, service, taskDef, registered, states,
                   pulled, sent, writes, concurrent, invocations>>

\* deploy: the rest of UpdateState(registered revision)
UpdateStatePush(s) ==
    /\ pc[s] = "UpdateState.Push"
    /\ LET i == UpdateStateIndex(pulled[s], registered[s]) IN
        IF i = 0
        THEN Return(s, "can not found a current state") /\ UNCHANGED <<param, writes>>
        ELSE \E ok \in BOOLEAN :
                LET put == Push(param, UpdateStateValue(pulled[s], i), ok) IN
                /\ param' = put.param
                /\ writes' = [writes EXCEPT ![s] = @ + 1]
                /\ Return(s, put.err)
    /\ pulled' = [pulled EXCEPT ![s] = <<>>]
    /\ UNCHANGED <<auxVars, lastCall, pushLog, pushOnly, ecsVars, cmd, flags, flagRevision, service, taskDef,
                   registered, states, polled, sent, concurrent, invocations>>

\* rollback: Pull the history; prevState and state are its last two records
RollbackPull(s) ==
    /\ pc[s] = "Pull"
    /\ \E ok \in BOOLEAN :
        LET got == Pull(param, ok) IN
        IF got.err # "nil" THEN Return(s, got.err) /\ UNCHANGED states
        ELSE /\ states' = [states EXCEPT ![s] = got.states]
             /\ IF Len(got.states) < 2 THEN Return(s, "can not found a prev state")
                ELSE Goto(s, "describeService")
    /\ UNCHANGED <<auxVars, histVars, ecsVars, cmd, flags, flagRevision, service, taskDef, registered, pulled,
                   polled, sent, writes, concurrent, invocations>>

\* ECS: the oldest of several active deployments is drained
EcsDrain ==
    /\ ecs.Deployments > 1
    /\ ecs' = [ecs EXCEPT !.Deployments = @ - 1]
    /\ UNCHANGED <<auxVars, histVars, latest, cmdVars>>

\* ECS: tasks of the service start or stop
EcsTasks ==
    /\ \E n \in 0..ecs.DesiredCount :
        /\ n # ecs.RunningCount
        /\ ecs' = [ecs EXCEPT !.RunningCount = n]
    /\ UNCHANGED <<auxVars, histVars, latest, cmdVars>>

\* invocations run one after the other, all in slot 1
Next ==
    \/ StartDeploy(1)
    \/ StartRollback(1)
    \/ DescribeService(1)
    \/ DescribeTaskDefinition(1)
    \/ TagDockerImages(1)
    \/ RegisterTaskDefinition(1)
    \/ ManagerPull(1)
    \/ PushStatePush(1)
    \/ UpdateServiceCall(1)
    \/ WaitUpdateServiceTick(1)
    \/ UpdateStatePush(1)
    \/ RollbackPull(1)
    \/ EcsDrain
    \/ EcsTasks

Spec == Init /\ [][Next]_vars

\* the history n successful deploys in a row leave, the service having started at
\* revision 1: revisions 2..n+1, all Deployed (n <= HistoryLimit)
DeployedHistory(n) ==
    [k \in 1..n |-> deployState(k + 1, deployStatus_DEPLOYED, Cause("deploy", k, k + 1))]

\* a service that has been deployed twice
DeployedTwice ==
    /\ param = [exists |-> TRUE,
                value |-> Marshal(<<
                    deployState(2, deployStatus_DEPLOYED, Cause("deploy", 1, 2)),
                    deployState(3, deployStatus_DEPLOYED, Cause("deploy", 2, 3))>>)]
    /\ ecs = [TaskDefinition |-> 3, DesiredCount |-> 1, RunningCount |-> 1, Deployments |-> 1]
    /\ latest = 3

ConcurrentInit ==
    /\ DeployedTwice
    /\ lastCall = NoCall
    /\ pushLog = <<>>
    /\ pushOnly = TRUE
    /\ InitCmd
    /\ InitAux
    /\ env = BothRegions

\* two invocations at most, one per slot, in any interleaving
ConcurrentNext ==
    \/ \E s \in Slots : pc[s] = "idle" /\ StartDeploy(s)
    \/ \E s \in Slots : pc[s] = "idle" /\ StartRollback(s)
    \/ \E s \in Slots : DescribeService(s)
    \/ \E s \in Slots : DescribeTaskDefinition(s)
    \/ \E s \in Slots : TagDockerImages(s)
    \/ \E s \in Slots : RegisterTaskDefinition(s)
    \/ \E s \in Slots : ManagerPull(s)
    \/ \E s \in Slots : PushStatePush(s)
    \/ \E s \in Slots : UpdateServiceCall(s)
    \/ \E s \in Slots : WaitUpdateServiceTick(s)
    \/ \E s \in Slots : UpdateStatePush(s)
    \/ \E s \in Slots : RollbackPull(s)
    \/ EcsDrain
    \/ EcsTasks

ConcurrentSpec == ConcurrentInit /\ [][ConcurrentNext]_vars

(***************************************************************************)
(* WritersSpec: two callers of PushState on the same key, each call taken  *)
(* request by request (its Pull, then its Push), from a history of deploys *)
(***************************************************************************)
WritersInit ==
    /\ \E n \in 0..defaultHistoryLimit :
          param = IF n = 0 THEN NoParam
                  ELSE [exists |-> TRUE, value |-> Marshal(DeployedHistory(n))]
    /\ lastCall = NoCall
    /\ pushLog = <<>>
    /\ pushOnly = TRUE
    /\ InitEcs /\ InitCmd /\ InitAux
    /\ env = BothRegions

\* caller w invokes PushState(revision, cause) with a revision newer than the history's
\* and other than the one the other caller pushes
WriterCall(w) ==
    /\ writers[w].pc = "idle"
    /\ \E k \in HistRevisions :
        LET revision == Len(History) + 1 + Cardinality({v \in Slots : writers[v].rank > 0}) + k IN
        /\ \A v \in Slots : writers[v].revision # revision
        /\ writers' = [writers EXCEPT ![w] =
                          [NoWriter EXCEPT !.pc = "Pull", !.revision = revision,
                                           !.cause = Cause("deploy", revision - 1, revision)]]
    /\ UNCHANGED <<histVars, ecsVars, cmdVars, resolve, oneshot, task, prep, env>>

\* PushState: states, err := m.Pull()
WriterPull(w) ==
    /\ writers[w].pc = "Pull"
    /\ \E ok \in BOOLEAN :
        LET got == Pull(param, ok) IN
        writers' = [writers EXCEPT ![w] =
                       IF got.err # "nil" THEN [@ EXCEPT !.pc = "done", !.err = got.err]
                       ELSE [@ EXCEPT !.pc = "Push", !.pulled = got.states]]
    /\ UNCHANGED <<histVars, ecsVars, cmdVars, resolve, oneshot, task, prep, env>>

\* PushState: the append, the truncation and m.Push(states)
WriterPush(w) ==
    /\ writers[w].pc = "Push"
    /\ \E ok \in BOOLEAN :
        LET put == Push(param, PushStateValue(writers[w].pulled, writers[w].revision,
                                              writers[w].cause), ok)
        IN /\ param' = put.param
           /\ writers' = [writers EXCEPT ![w] =
                            [@ EXCEPT !.pc = "done", !.err = put.err,
                                      !.rank = IF put.err # "nil" THEN 0
                                               ELSE 1 + Cardinality({v \in Slots :
                                                                       writers[v].rank > 0})]]
    /\ UNCHANGED <<lastCall, pushLog, pushOnly, ecsVars, cmdVars, resolve, oneshot, task, prep, env>>

WritersNext ==
    \/ \E w \in Slots : WriterCall(w)
    \/ \E w \in Slots : WriterPull(w)
    \/ \E w \in Slots : WriterPush(w)

WritersSpec == WritersInit /\ [][WritersNext]_vars

(***************************************************************************)
(* ResolverSpec: specifyRevision called on arbitrary arguments             *)
(***************************************************************************)
ArnChars == {"a", ":", "0", "1", "\n"}

RECURSIVE StringsUpTo(_)
StringsUpTo(n) ==
    IF n = 0 THEN {<<>>}
    ELSE LET shorter == StringsUpTo(n - 1)
         IN shorter \cup {Append(w, c) : w \in {x \in shorter : Len(x) = n - 1}, c \in ArnChars}

Arns == StringsUpTo(MaxArnLen)

ResolveRevisions == (0 - 1)..MaxResolveRevision

ResolverInit ==
    /\ InitHist /\ InitEcs /\ InitCmd
    /\ oneshot = NoOneshot
    /\ task = NoTask
    /\ prep = NoPrep
    /\ env = BothRegions
    /\ writers = [w \in Slots |-> NoWriter]
    /\ \E revision \in ResolveRevisions, arn \in Arns :
          resolve = [NoResolve EXCEPT !.revision = revision, !.arn = arn]

\* arn, err = specifyRevision(f.revision, arn)
CallSpecifyRevision ==
    /\ ~resolve.called
    /\ LET r == specifyRevision(resolve.revision, resolve.arn)
       IN resolve' = [resolve EXCEPT !.called = TRUE, !.out = r.arn, !.err = r.err]
    /\ UNCHANGED <<histVars, ecsVars, cmdVars, env, writers, oneshot, task, prep>>

ResolverNext == CallSpecifyRevision

ResolverSpec == ResolverInit /\ [][ResolverNext]_vars

(***************************************************************************)
(* OneshotSpec: shipctl oneshot, one invocation                            *)
(***************************************************************************)
\* the exit codes a container reports
ExitCodes == {0, 1, 137}

\* execute returns err: Run logs it and returns, main's Execute returns nil, exit status 0
OneshotReturn(o, e) == [o EXCEPT !.pc = "exited", !.err = e, !.exit = 0]

\* shipctl oneshot [--cluster c] [--taskdef-name t] [COMMAND], with or without a region
\* in the environment: the checks that open execute
StartOneshot ==
    /\ oneshot.pc = "idle"
    /\ \E cluster, taskDefName, command \in BOOLEAN :
        LET o == [oneshot EXCEPT !.cluster = cluster, !.taskDefName = taskDefName,
                                 !.command = command, !.region = getAWSRegion(env)]
        IN oneshot' =
              IF ~cluster THEN OneshotReturn(o, "--cluster is required")
              ELSE IF ~taskDefName THEN OneshotReturn(o, "--taskdef-name is required")
              ELSE IF ~command THEN OneshotReturn(o, "COMMAND is required")
              ELSE IF o.region = "" THEN OneshotReturn(o, "AWS region is not found")
              ELSE [o EXCEPT !.pc = "describeTaskDefinition"]
    /\ UNCHANGED <<histVars, ecsVars, cmdVars, env, writers, resolve, prep, task>>

\* describeTaskDefinition by name, specifyRevision, describeTaskDefinition by ARN
OneshotDescribeTaskDefinition ==
    /\ oneshot.pc \in {"describeTaskDefinition", "describeRevision"}
    /\ \E ok \in BOOLEAN :
        LET o == [oneshot EXCEPT !.issued = @ \cup {"DescribeTaskDefinition"}] IN
        oneshot' =
            IF ~ok THEN OneshotReturn(o, "api")
            ELSE IF oneshot.pc = "describeTaskDefinition"
                 THEN [o EXCEPT !.pc = "describeRevision"]
                 ELSE [o EXCEPT !.pc = "runTask"]
    /\ UNCHANGED <<histVars, ecsVars, cmdVars, env, writers, resolve, prep, task>>

\* runTask: RunTask with Count 1; an API error or a reported failure ends execute;
\* then waitTask sets up sig, the ticker and label
RunTask ==
    /\ oneshot.pc = "runTask"
    /\ \E outcome \in {"ok", "api", "failed to runTask"} :
        LET o == [oneshot EXCEPT !.issued = @ \cup {"RunTask"}, !.runs = @ + 1] IN
        IF outcome = "ok"
        THEN /\ task' = [NoTask EXCEPT !.LastStatus = "PENDING"]
             /\ oneshot' = [o EXCEPT !.pc = "select", !.label = "running"]
        ELSE /\ oneshot' = OneshotReturn(o, outcome)
             /\ UNCHANGED task
    /\ UNCHANGED <<histVars, ecsVars, cmdVars, env, writers, resolve, prep>>

\* waitTask, case <-t.C: the ticker fires and describeTask is sent
WaitTaskTick ==
    /\ oneshot.pc = "select"
    /\ oneshot' = [oneshot EXCEPT !.pc = "describeTask", !.case = "tick",
                                  !.issued = @ \cup {"DescribeTasks"}]
    /\ UNCHANGED <<histVars, ecsVars, cmdVars, env, writers, resolve, prep, task>>

\* a taskStatus that takes a missing exit code for a failure
newTaskStatusFailingOnNil(re) ==
    [ExitCode |-> IF re.ExitCode.isNil THEN 1 ELSE re.ExitCode.v]

\* waitTask: status := &taskStatus{...}; ExitCode stays 0 when the container reports none
newTaskStatus(re) ==
    [ExitCode |-> IF re.ExitCode.isNil THEN 0 ELSE re.ExitCode.v]

\* os.Exit(code): the low eight bits are the process's exit status
osExit(code) == code % 256

\* waitTask, case <-t.C: describeTask returns; on STOPPED waitTask returns the status and
\* execute calls os.Exit(status.ExitCode)
DescribeTaskReturn ==
    /\ oneshot.pc = "describeTask"
    /\ \E outcome \in {"ok", "api", "failed to runTask"} :
        oneshot' =
            IF outcome # "ok"
            THEN [OneshotReturn(oneshot, outcome) EXCEPT !.returned = "error"]
            ELSE LET re == [LastStatus |-> task.LastStatus, ExitCode |-> task.ExitCode]
                 IN IF re.LastStatus = "STOPPED"
                    THEN [oneshot EXCEPT !.re = re, !.returned = "status", !.pc = "exited",
                                         !.exit = osExit(newTaskStatus(re).ExitCode)]
                    ELSE [oneshot EXCEPT !.re = re, !.pc = "select"]
    /\ UNCHANGED <<histVars, ecsVars, cmdVars, env, writers, resolve, prep, task>>

\* SIGINT or SIGTERM reaches the process while waitTask runs. sig is unbuffered and
\* Notify never blocks: the signal is received when waitTask is in its select, and
\* dropped when it is inside describeTask or stopTask
Signal ==
    /\ oneshot.pc \in {"select", "describeTask", "stopTask"}
    /\ oneshot.signals < MaxSignals
    /\ oneshot' = IF oneshot.pc = "select"
                  THEN [oneshot EXCEPT !.signals = @ + 1, !.pc = "stopTask", !.case = "sig"]
                  ELSE [oneshot EXCEPT !.signals = @ + 1]
    /\ UNCHANGED <<histVars, ecsVars, cmdVars, env, writers, resolve, prep, task>>

\* a signal case that gives up waiting
afterStopTaskReturning(o) ==
    [o EXCEPT !.label = "stopping", !.returned = "status", !.pc = "exited", !.exit = 130]

\* waitTask, case <-sig, after stopTask: log, label = "stopping", back to the select
afterStopTask(o) == [o EXCEPT !.label = "stopping", !.pc = "select"]

\* waitTask, case <-sig: stopTask, its error ignored
StopTask ==
    /\ oneshot.pc = "stopTask"
    /\ \E ok \in BOOLEAN :
        /\ task' = IF ok THEN [task EXCEPT !.stopRequested = TRUE] ELSE task
        /\ oneshot' = afterStopTask([oneshot EXCEPT !.stops = @ + 1,
                                                    !.issued = @ \cup {"StopTask"}])
    /\ UNCHANGED <<histVars, ecsVars, cmdVars, env, writers, resolve, prep>>

\* ECS: the task starts running
TaskRuns ==
    /\ task.LastStatus = "PENDING"
    /\ task' = [task EXCEPT !.LastStatus = "RUNNING"]
    /\ UNCHANGED <<histVars, ecsVars, cmdVars, env, writers, resolve, prep, oneshot>>

\* ECS: the task stops, by itself or on request, its container reporting an exit code or none
TaskStops ==
    /\ task.LastStatus \in {"PENDING", "RUNNING"}
    /\ \E c \in {NilExitCode} \cup {ExitCodeOf(x) : x \in ExitCodes} :
        task' = [task EXCEPT !.LastStatus = "STOPPED", !.ExitCode = c]
    /\ UNCHANGED <<histVars, ecsVars, cmdVars, env, writers, resolve, prep, oneshot>>

OneshotNext ==
    \/ StartOneshot
    \/ OneshotDescribeTaskDefinition
    \/ RunTask
    \/ WaitTaskTick
    \/ DescribeTaskReturn
    \/ Signal
    \/ StopTask
    \/ TaskRuns
    \/ TaskStops

\* one oneshot invocation, in any environment
OneshotInit == InitHist /\ InitEcs /\ InitCmd /\ InitAux /\ env \in Envs

OneshotSpec == OneshotInit /\ [][OneshotNext]_vars

(***************************************************************************)
(* CliSpec: one process, main running one of deploy, rollback and oneshot  *)
(* in any environment, against a service deployed twice or five times;     *)
(* FairSpec: one deploy or rollback under the fairness its ticker gives    *)
(***************************************************************************)
CliInit ==
    /\ \E n \in {2, defaultHistoryLimit} :
        /\ param = [exists |-> TRUE, value |-> Marshal(DeployedHistory(n))]
        /\ ecs = [TaskDefinition |-> n + 1, DesiredCount |-> 1, RunningCount |-> 1,
                  Deployments |-> 1]
        /\ latest = n + 1
    /\ lastCall = NoCall
    /\ pushLog = <<>>
    /\ pushOnly = TRUE
    /\ InitCmd
    /\ InitAux
    /\ env \in Envs

\* rootCmd.Execute() runs the one subcommand named on the command line
CliNext ==
    \/ invocations = 0 /\ oneshot.pc = "idle" /\ StartDeploy(1)
    \/ invocations = 0 /\ oneshot.pc = "idle" /\ StartRollback(1)
    \/ DescribeService(1)
    \/ DescribeTaskDefinition(1)
    \/ TagDockerImages(1)
    \/ RegisterTaskDefinition(1)
    \/ ManagerPull(1)
    \/ PushStatePush(1)
    \/ UpdateServiceCall(1)
    \/ WaitUpdateServiceTick(1)
    \/ UpdateStatePush(1)
    \/ RollbackPull(1)
    \/ EcsDrain
    \/ EcsTasks
    \/ invocations = 0 /\ StartOneshot
    \/ OneshotDescribeTaskDefinition
    \/ RunTask
    \/ WaitTaskTick
    \/ DescribeTaskReturn
    \/ Signal
    \/ StopTask
    \/ TaskRuns
    \/ TaskStops

CliSpec == CliInit /\ [][CliNext]_vars

\* one deploy or rollback, and the ECS scheduler
FairNext ==
    \/ invocations = 0 /\ StartDeploy(1)
    \/ invocations = 0 /\ StartRollback(1)
    \/ DescribeService(1)
    \/ DescribeTaskDefinition(1)
    \/ TagDockerImages(1)
    \/ RegisterTaskDefinition(1)
    \/ ManagerPull(1)
    \/ PushStatePush(1)
    \/ UpdateServiceCall(1)
    \/ WaitUpdateServiceTick(1)
    \/ UpdateStatePush(1)
    \/ RollbackPull(1)
    \/ EcsDrain
    \/ EcsTasks

\* a tick of waitUpdateService whose describeService returns the service
WaitTickFetched(s) ==
    /\ WaitUpdateServiceTick(s)
    /\ \A k \in 1..Len(trace'[s]) : trace'[s][k].step = "waitUpdateService" => trace'[s][k].ok

\* the ticker of waitUpdateService fires every ten seconds: a tick that would fetch the
\* service and change the state is not put off for ever. Whether a fetch fails, and
\* what the ECS scheduler does, are under no obligation.
FairSpec == ConcurrentInit /\ [][FairNext]_vars /\ WF_vars(WaitTickFetched(1))

(***************************************************************************)
(* ScaleSpec: one deploy or rollback while another actor (an operator, an  *)
(* autoscaler) changes the desired count of the same service               *)
(***************************************************************************)
\* another client of ECS sets the service's desired count
EcsScale ==
    /\ \E n \in 1..MaxDesiredCount :
        /\ n # ecs.DesiredCount
        /\ ecs' = [ecs EXCEPT !.DesiredCount = n]
    /\ UNCHANGED <<auxVars, histVars, latest, cmdVars>>

ScaleNext ==
    \/ invocations = 0 /\ StartDeploy(1)
    \/ invocations = 0 /\ StartRollback(1)
    \/ DescribeService(1)
    \/ DescribeTaskDefinition(1)
    \/ TagDockerImages(1)
    \/ RegisterTaskDefinition(1)
    \/ ManagerPull(1)
    \/ PushStatePush(1)
    \/ UpdateServiceCall(1)
    \/ WaitUpdateServiceTick(1)
    \/ UpdateStatePush(1)
    \/ RollbackPull(1)
    \/ EcsDrain
    \/ EcsTasks
    \/ EcsScale

ScaleSpec == ConcurrentInit /\ [][ScaleNext]_vars

(***************************************************************************)
(* TwoRunsSpec: two invocations one after the other, the first in slot 1   *)
(* and the second in slot 2, on a service deployed two or five times whose *)
(* last deploy succeeded or was aborted while its record was Pending       *)
(***************************************************************************)
\* the history and the service n deploys in a row leave when the last of them succeeded
\* ("no"), failed in updateService, or failed in waitUpdateService and the older
\* deployment has since been drained
AfterDeploys(n, aborted) ==
    /\ param = [exists |-> TRUE,
                value |-> Marshal([DeployedHistory(n) EXCEPT ![n].Status =
                                        IF aborted = "no" THEN deployStatus_DEPLOYED
                                        ELSE deployStatus_PENDING])]
    /\ ecs = [TaskDefinition |-> IF aborted = "updateService" THEN n ELSE n + 1,
              DesiredCount |-> 1, RunningCount |-> 1, Deployments |-> 1]
    /\ latest = n + 1

TwoRunsInit ==
    /\ \E n \in {2, defaultHistoryLimit}, aborted \in {"no", "updateService", "waitUpdateService"} :
          AfterDeploys(n, aborted)
    /\ lastCall = NoCall
    /\ pushLog = <<>>
    /\ pushOnly = TRUE
    /\ InitCmd
    /\ InitAux
    /\ env = BothRegions

\* the invocation in slot s starts when no other is running
Alone(s) == pc[s] = "idle" /\ \A t \in Slots \ {s} : ~Running(t)

TwoRunsNext ==
    \/ \E s \in Slots : Alone(s) /\ StartDeploy(s)
    \/ \E s \in Slots : Alone(s) /\ StartRollback(s)
    \/ \E s \in Slots : DescribeService(s)
    \/ \E s \in Slots : DescribeTaskDefinition(s)
    \/ \E s \in Slots : TagDockerImages(s)
    \/ \E s \in Slots : RegisterTaskDefinition(s)
    \/ \E s \in Slots : ManagerPull(s)
    \/ \E s \in Slots : PushStatePush(s)
    \/ \E s \in Slots : UpdateServiceCall(s)
    \/ \E s \in Slots : WaitUpdateServiceTick(s)
    \/ \E s \in Slots : UpdateStatePush(s)
    \/ \E s \in Slots : RollbackPull(s)
    \/ EcsDrain
    \/ EcsTasks

TwoRunsSpec == TwoRunsInit /\ [][TwoRunsNext]_vars

(***************************************************************************)
(* PrepareSpec: deploy from createNewTaskDefinition to updateService,      *)
(* request by request, on an arbitrary task definition                     *)
(***************************************************************************)
\* image references are sequences of tokens: [host "/"] repository [":" tag],
\* a host being written digit by digit and piece by piece
EcrVirginia == <<"1", "2", ".dkr.ecr.", "us", "-", "east", "-", "1", ".amazonaws.com">>

EcrStockholm == <<"1", ".dkr.ecr.", "eu", "-", "north", "-", "1", ".amazonaws.com">>

\* the containers a task definition is made of here
ContainerCatalogue ==
    {[Name |-> "web", Memory |-> 256, Image |-> EcrVirginia \o <<"/", "app", ":", "v0">>],
     [Name |-> "job", Memory |-> 128, Image |-> EcrVirginia \o <<"/", "job", ":", "v0">>],
     [Name |-> "far", Memory |-> 128, Image |-> EcrStockholm \o <<"/", "app", ":", "v0">>],
     [Name |-> "proxy", Memory |-> 64, Image |-> <<"docker.io", "/", "nginx", ":", "1">>],
     [Name |-> "cache", Memory |-> 64, Image |-> <<"redis", ":", "6">>],
     [Name |-> "bare", Memory |-> 64, Image |-> <<"busybox">>]}

RECURSIVE ContainerLists(_)
ContainerLists(n) ==
    IF n = 0 THEN {<<>>}
    ELSE LET shorter == ContainerLists(n - 1)
         IN shorter \cup {Append(w, c) : w \in {x \in shorter : Len(x) = n - 1},
                                         c \in ContainerCatalogue}

imageOption(repositoryName, tag) == [RepositoryName |-> repositoryName, Tag |-> tag]

\* the --image options of the command line, in the order given (at least one: execute
\* has checked len(f.images.Value))
ImageOptionLists ==
    {<<imageOption("app", "v1")>>,
     <<imageOption("app", "v1"), imageOption("job", "v1")>>,
     <<imageOption("app", "v1"), imageOption("nginx", "v1")>>,
     <<imageOption("app", "v1"), imageOption("app", "v2")>>,
     <<imageOption("job", "v1"), imageOption("redis", "v1"), imageOption("nginx", "v1"),
       imageOption("app", "v1")>>}

\* uniqueID, the ULID drawn at the start of execute
uniqueID == "ULID"

\* imageOptions.Get: the first option of that repository, or nil
imageOptionsGet(value, repoName) ==
    LET hits == {k \in 1..Len(value) : value[k].RepositoryName = repoName}
    IN IF hits = {} THEN [isNil |-> TRUE, opt |-> imageOption("", "")]
       ELSE [isNil |-> FALSE, opt |-> value[CHOOSE k \in hits : \A l \in hits : k <= l]]

\* parseDockerImage: reference.Parse, SplitHostname, and the Tagged assertion, which
\* panics on a reference without a tag
parseDockerImage(image) ==
    LET slashes == {k \in 1..Len(image) : image[k] = "/"}
        slash == IF slashes = {} THEN 0 ELSE CHOOSE k \in slashes : \A l \in slashes : k <= l
        rest == SubSeq(image, slash + 1, Len(image))
        untagged == ~(Len(rest) = 3 /\ rest[2] = ":")
    IN [err |-> IF untagged THEN "panic" ELSE "nil",
        Name |-> IF untagged THEN image ELSE SubSeq(image, 1, Len(image) - 2),
        Tag |-> IF untagged THEN "" ELSE rest[3],
        RepositoryName |-> rest[1],
        HostName |-> IF slash = 0 THEN <<>> ELSE SubSeq(image, 1, slash - 1)]

\* a pattern that takes every amazonaws.com host for a managed registry
isECRHostedAnyRegion(image) ==
    LET h == image.HostName
    IN Len(h) >= 1 /\ h[Len(h)] = ".amazonaws.com"

\* isECRHosted: ECRRegex on the host name,
\* ^[0-9]+\.dkr\.ecr\.(us|ca|eu|ap|sa)-(east|west|central|northeast|southeast|south)-[12]\.amazonaws\.com$
isECRHosted(image) ==
    LET h == image.HostName
        n == Len(h) - 7
    IN /\ n >= 1
       /\ \A k \in 1..n : h[k] \in Digit
       /\ h[n + 1] = ".dkr.ecr."
       /\ h[n + 2] \in {"us", "ca", "eu", "ap", "sa"}
       /\ h[n + 3] = "-"
       /\ h[n + 4] \in {"east", "west", "central", "northeast", "southeast", "south"}
       /\ h[n + 5] = "-"
       /\ h[n + 6] \in {"1", "2"}
       /\ h[n + 7] = ".amazonaws.com"

\* a createNewTaskDefinition that retags every container, wherever its image is hosted
RECURSIVE createNewTaskDefinitionOfAll(_, _)
createNewTaskDefinitionOfAll(id, containers) ==
    IF containers = <<>> THEN [err |-> "nil", containers |-> <<>>]
    ELSE LET done == createNewTaskDefinitionOfAll(id, SubSeq(containers, 1, Len(containers) - 1))
             v == containers[Len(containers)]
             img == parseDockerImage(v.Image)
         IN IF done.err # "nil" THEN done
            ELSE IF img.err # "nil" THEN [err |-> img.err, containers |-> <<>>]
            ELSE [err |-> "nil",
                  containers |-> Append(done.containers,
                                        [v EXCEPT !.Image = img.Name \o <<":", id>>])]

\* createNewTaskDefinition: the containers of the draft, built in source order: a copy of
\* each ECR-hosted container with Image = "<img.Name>:<id>"; the first image that does
\* not parse ends it
RECURSIVE createNewTaskDefinition(_, _)
createNewTaskDefinition(id, containers) ==
    IF containers = <<>> THEN [err |-> "nil", containers |-> <<>>]
    ELSE LET done == createNewTaskDefinition(id, SubSeq(containers, 1, Len(containers) - 1))
             v == containers[Len(containers)]
             img == parseDockerImage(v.Image)
         IN IF done.err # "nil" THEN done
            ELSE IF img.err # "nil" THEN [err |-> img.err, containers |-> <<>>]
            ELSE IF isECRHosted(img)
                 THEN [err |-> "nil",
                       containers |-> Append(done.containers,
                                             [v EXCEPT !.Image = img.Name \o <<":", id>>])]
                 ELSE done

PrepareInit ==
    /\ InitHist /\ InitEcs /\ InitCmd
    /\ resolve = NoResolve
    /\ oneshot = NoOneshot
    /\ task = NoTask
    /\ env = BothRegions
    /\ writers = [w \in Slots |-> NoWriter]
    /\ \E containers \in ContainerLists(MaxContainers), images \in ImageOptionLists :
          prep = [NoPrep EXCEPT !.pc = "createNewTaskDefinition",
                                !.containers = containers, !.images = images]

PrepReturn(e) == [prep EXCEPT !.pc = "done", !.err = e]

\* newTaskDef, err := createNewTaskDefinition(uniqueID, taskDef)
CreateNewTaskDefinition ==
    /\ prep.pc = "createNewTaskDefinition"
    /\ LET r == createNewTaskDefinition(uniqueID, prep.containers)
       IN prep' = IF r.err # "nil" THEN PrepReturn(r.err)
                  ELSE [prep EXCEPT !.pc = "tagDockerImage", !.drafted = TRUE,
                                    !.draft = r.containers, !.i = 1]
    /\ UNCHANGED <<histVars, ecsVars, cmdVars, env, writers, resolve, oneshot, task>>

\* a loop that stops after the first container
tagLoopDoneAfterFirst(p) == p.i > 1 \/ p.i > Len(p.containers)

\* for _, v := range taskDef.ContainerDefinitions: the loop is over
tagLoopDone(p) == p.i > Len(p.containers)

\* the head of the loop over taskDef.ContainerDefinitions: parse the image of
\* container i and look up its repository among the --image options
TagLoopHead ==
    /\ prep.pc = "tagDockerImage"
    /\ prep' =
        IF tagLoopDone(prep) THEN [prep EXCEPT !.pc = "registerTaskDefinition"]
        ELSE LET img == parseDockerImage(prep.containers[prep.i].Image)
                 opt == imageOptionsGet(prep.images, img.RepositoryName)
             IN IF img.err # "nil" THEN PrepReturn(img.err)
                ELSE IF opt.isNil THEN PrepReturn("can not found a image option")
                ELSE [prep EXCEPT !.pc = "BatchGetImage"]
    /\ UNCHANGED <<histVars, ecsVars, cmdVars, env, writers, resolve, oneshot, task>>

\* tagDockerImage: BatchGetImage of opt.Tag in the repository; img.Images[0] panics
\* when ECR returns no image
BatchGetImage ==
    /\ prep.pc = "BatchGetImage"
    /\ LET img == parseDockerImage(prep.containers[prep.i].Image)
           opt == imageOptionsGet(prep.images, img.RepositoryName).opt
       IN \E outcome \in {"ok", "api", "panic"} :
            LET call == [op |-> "BatchGetImage", repositoryName |-> img.RepositoryName,
                         tag |-> opt.Tag, container |-> prep.i, ok |-> outcome = "ok"]
            IN prep' = IF outcome = "ok"
                       THEN [prep EXCEPT !.calls = Append(@, call), !.pc = "PutImage"]
                       ELSE [PrepReturn(outcome) EXCEPT !.calls = Append(@, call)]
    /\ UNCHANGED <<histVars, ecsVars, cmdVars, env, writers, resolve, oneshot, task>>

\* a tagDockerImage that overlooks the error of PutImage
afterPutImageIgnoringError(p, ok) == [p EXCEPT !.pc = "tagDockerImage", !.i = @ + 1]

\* tagDockerImage after PutImage: its error ends execute, else the next container
afterPutImage(p, ok) ==
    IF ok THEN [p EXCEPT !.pc = "tagDockerImage", !.i = @ + 1]
    ELSE [p EXCEPT !.pc = "done", !.err = "api"]

\* tagDockerImage: PutImage of the manifest under the tag uniqueID; then the next container
PutImage ==
    /\ prep.pc = "PutImage"
    /\ LET img == parseDockerImage(prep.containers[prep.i].Image)
       IN \E ok \in BOOLEAN :
            LET call == [op |-> "PutImage", repositoryName |-> img.RepositoryName,
                         tag |-> uniqueID, container |-> prep.i, ok |-> ok]
            IN prep' = afterPutImage([prep EXCEPT !.calls = Append(@, call)], ok)
    /\ UNCHANGED <<histVars, ecsVars, cmdVars, env, writers, resolve, oneshot, task>>

\* a request of the given kind entered with its outcome
Issued(p, op, ok) == [p EXCEPT !.issued = Append(@, [op |-> op, ok |-> ok])]

\* registerTaskDefinition(client, newTaskDef)
PrepRegisterTaskDefinition ==
    /\ prep.pc = "registerTaskDefinition"
    /\ \E ok \in BOOLEAN :
        LET p == Issued(prep, "RegisterTaskDefinition", ok)
        IN prep' = IF ok THEN [p EXCEPT !.pc = "PushState", !.registered = TRUE]
                   ELSE [p EXCEPT !.pc = "done", !.err = "api"]
    /\ UNCHANGED <<histVars, ecsVars, cmdVars, env, writers, resolve, oneshot, task>>

\* historyManager.PushState(registered revision, cause): its Pull, then its PutParameter
PrepPushState ==
    /\ prep.pc = "PushState"
    /\ \E pullOk, pushOk \in BOOLEAN :
        LET got == Issued(prep, "GetParameters", pullOk)
            put == Issued(got, "PutParameter", pushOk)
        IN prep' = IF ~pullOk THEN [got EXCEPT !.pc = "done", !.err = "api"]
                   ELSE IF ~pushOk THEN [put EXCEPT !.pc = "done", !.err = "api"]
                   ELSE [put EXCEPT !.pc = "updateService"]
    /\ UNCHANGED <<histVars, ecsVars, cmdVars, env, writers, resolve, oneshot, task>>

\* updateService(client, service, registerdTaskDef); waitUpdateService is left to Spec
PrepUpdateService ==
    /\ prep.pc = "updateService"
    /\ \E ok \in BOOLEAN :
        LET p == Issued(prep, "UpdateService", ok)
        IN prep' = [p EXCEPT !.pc = "done", !.err = IF ok THEN "nil" ELSE "api"]
    /\ UNCHANGED <<histVars, ecsVars, cmdVars, env, writers, resolve, oneshot, task>>

PrepareNext ==
    \/ CreateNewTaskDefinition
    \/ TagLoopHead
    \/ BatchGetImage
    \/ PutImage
    \/ PrepRegisterTaskDefinition
    \/ PrepPushState
    \/ PrepUpdateService

PrepareSpec == PrepareInit /\ [][PrepareNext]_vars

(***************************************************************************)
(* Claims on the history manager (HistSpec)                                *)
(***************************************************************************)
LastRecords(h, n) == IF Len(h) > n THEN SubSeq(h, Len(h) - n + 1, Len(h)) ELSE h

HasRevision(h, revision) == \E i \in 1..Len(h) : h[i].Revision = revision

PendingAt(h, revision) ==
    {i \in 1..Len(h) : h[i].Revision = revision /\ h[i].Status = deployStatus_PENDING}

\* the positions whose status differs between two histories of the same length
Flipped(before, after) == {i \in 1..Len(before) : before[i].Status # after[i].Status}

\* C1 (as stated): PushState of a revision that some record of the stored history
\* already carries fails and leaves the stored history unchanged.
C1_DuplicateRevisionRejected ==
    (lastCall.op = "PushState" /\ HasRevision(lastCall.before, lastCall.revision))
        => (lastCall.err # "nil" /\ History = lastCall.before)

\* C1 (amended): PushState makes no duplicate check. Whenever its backend calls succeed
\* it stores the pulled history with {revision, Pending, cause} appended, cut to the
\* last HistoryLimit records, whether or not the revision is already there; it fails
\* only with a backend error, and then the stored history is unchanged.
C1_PushStateAppendsAlways ==
    lastCall.op = "PushState" =>
        /\ lastCall.err \in {"nil", "api"}
        /\ lastCall.err = "nil" =>
              History = LastRecords(
                  lastCall.before \o
                      <<deployState(lastCall.revision, deployStatus_PENDING, lastCall.cause)>>,
                  defaultHistoryLimit)
        /\ lastCall.err # "nil" => History = lastCall.before

C1_Witness ==
    /\ lastCall.op = "PushState"
    /\ lastCall.err = "nil"
    /\ HasRevision(lastCall.before, lastCall.revision)
    /\ Cardinality({i \in 1..Len(History) : History[i].Revision = lastCall.revision}) >= 2

\* C3: after N > HistoryLimit successful PushState calls in a row, Pull returns exactly
\* the HistoryLimit records pushed last, in push order; and the stored history never
\* holds more than HistoryLimit records after a PushState.
C3_Truncation ==
    /\ (lastCall.op = "Pull" /\ lastCall.err = "nil" /\ pushOnly
            /\ Len(pushLog) > defaultHistoryLimit)
        => /\ Len(lastCall.out) = defaultHistoryLimit
           /\ \A k \in 1..defaultHistoryLimit :
                 lastCall.out[k] = pushLog[Len(pushLog) - defaultHistoryLimit + k]
    /\ lastCall.op = "PushState" => Len(History) <= defaultHistoryLimit

C3_Witness ==
    /\ lastCall.op = "Pull"
    /\ lastCall.err = "nil"
    /\ pushOnly
    /\ Len(pushLog) > defaultHistoryLimit
    /\ pushLog[1].Revision # pushLog[Len(pushLog)].Revision

\* C4: UpdateState(revision) returns an error and issues no PutParameter, the stored
\* history staying as it was, whenever no record of the stored history has that
\* revision with status Pending; also when the only such record is Deployed.
C4_UpdateStateNeedsPending ==
    (lastCall.op = "UpdateState" /\ PendingAt(lastCall.before, lastCall.revision) = {})
        => (lastCall.err # "nil" /\ ~lastCall.put /\ History = lastCall.before)

C4_Witness ==
    /\ lastCall.op = "UpdateState"
    /\ lastCall.err = "can not found a current state"
    /\ \E i \in 1..Len(lastCall.before) :
          /\ lastCall.before[i].Revision = lastCall.revision
          /\ lastCall.before[i].Status = deployStatus_DEPLOYED

\* C5: a successful UpdateState(revision) turns exactly one record from Pending to
\* Deployed; the length and order of the history, every record's revision and cause,
\* and every other record's status stay as they were.
C5_UpdateStateFrame ==
    (lastCall.op = "UpdateState" /\ lastCall.err = "nil") =>
        /\ Len(History) = Len(lastCall.before)
        /\ \A i \in 1..Len(lastCall.before) :
              /\ History[i].Revision = lastCall.before[i].Revision
              /\ History[i].Cause = lastCall.before[i].Cause
        /\ Cardinality(Flipped(lastCall.before, History)) = 1
        /\ \A i \in Flipped(lastCall.before, History) :
              /\ lastCall.before[i].Revision = lastCall.revision
              /\ lastCall.before[i].Status = deployStatus_PENDING
              /\ History[i].Status = deployStatus_DEPLOYED

C5_Witness ==
    /\ lastCall.op = "UpdateState"
    /\ lastCall.err = "nil"
    /\ Len(lastCall.before) >= 3
    /\ Cardinality(PendingAt(lastCall.before, lastCall.revision)) >= 2
    /\ \E i \in 1..Len(History) : History[i].Revision # lastCall.revision

\* C6 (as stated): with several Pending records of the same revision, a successful
\* UpdateState(revision) flips the one closest to the end of the sequence.
C6_FlipsMostRecentPending ==
    (lastCall.op = "UpdateState" /\ lastCall.err = "nil") =>
        \A i \in Flipped(lastCall.before, History) :
            \A j \in PendingAt(lastCall.before, lastCall.revision) : j <= i

\* C6 (amended): with several Pending records of the same revision, a successful
\* UpdateState(revision) flips the oldest of them (the one closest to the start of
\* the sequence) and leaves the newer ones Pending.
C6_FlipsOldestPending ==
    (lastCall.op = "UpdateState" /\ lastCall.err = "nil") =>
        /\ Flipped(lastCall.before, History) # {}
        /\ \A i \in Flipped(lastCall.before, History) :
              /\ \A j \in PendingAt(lastCall.before, lastCall.revision) : i <= j
              /\ History[i].Status = deployStatus_DEPLOYED
        /\ \A j \in PendingAt(lastCall.before, lastCall.revision) :
              j \notin Flipped(lastCall.before, History)
                  => History[j].Status = deployStatus_PENDING

C6_Witness ==
    /\ lastCall.op = "UpdateState"
    /\ lastCall.err = "nil"
    /\ Cardinality(PendingAt(lastCall.before, lastCall.revision)) >= 2
    /\ Cardinality(PendingAt(History, lastCall.revision)) >= 1

\* some record of h has that revision and cause, with one of the statuses
RecordedAs(h, revision, cause, statuses) ==
    \E i \in 1..Len(h) :
        h[i].Revision = revision /\ h[i].Cause = cause /\ h[i].Status \in statuses

\* C30: every Deployed record of the stored history was stored as Pending before, with
\* the same revision: a call creates records only as Pending (PushState, at the end),
\* changes a status only from Pending to Deployed (UpdateState, in place), and never
\* turns a Deployed record back to Pending.
C30_PendingBeforeDeployed ==
    [][\A h \in {History}, g \in {History'} :
          /\ \A j \in 1..Len(g) :
                g[j].Status = deployStatus_DEPLOYED =>
                    RecordedAs(h, g[j].Revision, g[j].Cause,
                               {deployStatus_PENDING, deployStatus_DEPLOYED})
          /\ (lastCall'.op = "PushState" /\ lastCall'.err = "nil") =>
                /\ g[Len(g)].Status = deployStatus_PENDING
                /\ g = LastRecords(Append(h, g[Len(g)]), defaultHistoryLimit)
          /\ (lastCall'.op = "UpdateState" /\ lastCall'.err = "nil") =>
                /\ Len(g) = Len(h)
                /\ \A i \in 1..Len(h) :
                        g[i].Status # h[i].Status =>
                            /\ h[i].Status = deployStatus_PENDING
                            /\ g[i].Status = deployStatus_DEPLOYED
          /\ (lastCall'.op = "Pull" \/ lastCall'.err # "nil") => g = h]_vars

\* C30: the stored history holds a Deployed record, an UpdateState having found it Pending
C30_Witness ==
    /\ lastCall.op = "UpdateState" /\ lastCall.err = "nil"
    /\ \E i \in 1..Len(History) :
          /\ History[i].Status = deployStatus_DEPLOYED
          /\ lastCall.before[i].Status = deployStatus_PENDING
          /\ lastCall.before[i].Revision = History[i].Revision

(***************************************************************************)
(* Claims on the commands (Spec: one invocation at a time)                 *)
(***************************************************************************)
\* C2 (as stated): whatever deploys and rollbacks ran from the empty history, no two
\* records of the stored history carry the same revision.
C2_NoDuplicateRevisions ==
    \A i, j \in 1..Len(History) : i # j => History[i].Revision # History[j].Revision

\* C2 (amended): whatever deploys and rollbacks ran from the empty history, two records
\* of the stored history carry the same revision only when the later one was appended
\* by a rollback; the records appended by deploys carry pairwise distinct revisions.
C2_DuplicatesOnlyByRollback ==
    \A i, j \in 1..Len(History) :
        (i < j /\ History[i].Revision = History[j].Revision)
            => History[j].Cause[1] = "rollback"

C2_Witness ==
    \E i, j \in 1..Len(History) :
        /\ i < j
        /\ History[i].Revision = History[j].Revision
        /\ History[i].Cause[1] = "deploy"
        /\ History[j].Cause[1] = "rollback"

\* the one record a deploy in slot s pushes, with the given status
DeployRecord(s, status) ==
    deployState(registered[s], status, Cause("deploy", taskDef[s], registered[s]))

\* C7: a deploy run alone on the empty history stores nothing before its push, exactly
\* [{r, Pending}] from the push until UpdateState writes, and ends successfully with
\* exactly [{r, Deployed}]; the record is Deployed only after a tick of
\* waitUpdateService fetched one active deployment with running = desired.
C7_DeployAlone ==
    (invocations = 1 /\ cmd[1] = "deploy") =>
        /\ pc[1] \in {"describeService", "describeTaskDefinition", "tagDockerImage",
                      "registerTaskDefinition", "PushState.Pull", "PushState.Push"}
              => History = <<>>
        /\ pc[1] \in {"updateService", "waitUpdateService", "UpdateState.Pull",
                      "UpdateState.Push"}
              => History = <<DeployRecord(1, deployStatus_PENDING)>>
        /\ (pc[1] = "done" /\ err[1] = "nil")
              => History = <<DeployRecord(1, deployStatus_DEPLOYED)>>
        /\ (\E i \in 1..Len(History) : History[i].Status = deployStatus_DEPLOYED)
              => /\ polled[1].Deployments = 1
                 /\ polled[1].RunningCount = polled[1].DesiredCount

C7_Witness ==
    /\ invocations = 1
    /\ cmd[1] = "deploy"
    /\ pc[1] = "done"
    /\ err[1] = "nil"
    /\ History = <<deployState(2, deployStatus_DEPLOYED, Cause("deploy", 1, 2))>>

\* C8: a rollback that completes successfully pulled a history ending with records of
\* revisions p and c, resolved the task definition of revision p, issued one
\* UpdateService to it, and left the pulled history with
\* {p, Pending, "rollback: c -> p"} appended.
C8_RollbackToPrevious ==
    (cmd[1] = "rollback" /\ pc[1] = "done" /\ err[1] = "nil") =>
        /\ Len(states[1]) >= 2
        /\ LET n == Len(states[1])
               p == states[1][n - 1].Revision
               c == states[1][n].Revision
           IN /\ taskDef[1] = p
              /\ Len(sent[1]) = 1
              /\ sent[1][1].TaskDefinition = p
              /\ ecs.TaskDefinition = p
              /\ History = LastRecords(
                    states[1] \o <<deployState(p, deployStatus_PENDING,
                                               Cause("rollback", c, p))>>,
                    defaultHistoryLimit)

C8_Witness ==
    /\ cmd[1] = "rollback"
    /\ pc[1] = "done"
    /\ err[1] = "nil"
    /\ Len(states[1]) = 2
    /\ states[1][1].Status = deployStatus_DEPLOYED
    /\ states[1][2].Status = deployStatus_DEPLOYED
    /\ History[3] = deployState(states[1][1].Revision, deployStatus_PENDING,
                                Cause("rollback", states[1][2].Revision,
                                      states[1][1].Revision))
    /\ states[1][1].Revision # states[1][2].Revision

\* C9: a rollback that pulled fewer than two records, or whose describeService showed
\* more than one active deployment, has failed, has issued no UpdateService and has
\* written nothing to the history.
C9_RollbackGuards ==
    (cmd[1] = "rollback" /\ pc[1] # "Pull"
        /\ (Len(states[1]) < 2 \/ service[1].Deployments > 1))
        => /\ pc[1] = "done"
           /\ err[1] # "nil"
           /\ sent[1] = <<>>
           /\ writes[1] = 0

C9_Witness ==
    /\ cmd[1] = "rollback"
    /\ pc[1] = "done"
    /\ Len(states[1]) >= 2
    /\ service[1].Deployments > 1
    /\ err[1] = "is currently deploying"

C9_WitnessShortHistory ==
    /\ cmd[1] = "rollback"
    /\ pc[1] = "done"
    /\ Len(states[1]) = 1
    /\ err[1] = "can not found a prev state"

\* C11 (as stated): every UpdateService request, of a deploy or of a rollback, is
\* issued when the stored history holds a Pending record of the target revision.
C11_PendingBeforeEverySubmit ==
    \A s \in Slots : \A k \in 1..Len(sent[s]) : sent[s][k].recorded

\* C11 (amended): a deploy issues its UpdateService request when the stored history
\* holds a Pending record of the registered revision, and a deploy that fails after
\* the request leaves that record Pending; a rollback issues its request first and
\* writes its Pending record only once the service converged, so a rollback that
\* fails after the request leaves the history as it pulled it.
C11_PendingBeforeSubmitInDeploy ==
    /\ cmd[1] = "deploy" =>
          /\ \A k \in 1..Len(sent[1]) : sent[1][k].recorded
          /\ (pc[1] = "done" /\ err[1] # "nil" /\ sent[1] # <<>>)
                => PendingAt(History, registered[1]) # {}
    /\ (cmd[1] = "rollback" /\ sent[1] # <<>>
            /\ (pc[1] \in {"waitUpdateService", "PushState.Pull", "PushState.Push"}
                    \/ (pc[1] = "done" /\ err[1] # "nil")))
          => History = states[1]

C11_Witness ==
    /\ cmd[1] = "deploy"
    /\ pc[1] = "done"
    /\ err[1] = "api"
    /\ Len(sent[1]) = 1
    /\ polled[1] # NoService
    /\ PendingAt(History, registered[1]) # {}

\* C12: waitUpdateService returns nil only on a tick that fetched one active deployment
\* with running = desired; a fetched state with two active deployments keeps it
\* waiting even when running = desired, and so does one active deployment with
\* running # desired.
C12_WaitEndsOnlyWhenConverged ==
    /\ (\/ pc[1] \in {"UpdateState.Pull", "UpdateState.Push"}
        \/ cmd[1] = "rollback" /\ pc[1] \in {"PushState.Pull", "PushState.Push"}
        \/ pc[1] = "done" /\ err[1] = "nil" /\ sent[1] # <<>>)
          => (polled[1].Deployments = 1 /\ polled[1].RunningCount = polled[1].DesiredCount)
    /\ (pc[1] = "waitUpdateService" /\ polled[1] # NoService)
          => ~(polled[1].Deployments = 1 /\ polled[1].RunningCount = polled[1].DesiredCount)

C12_Witness ==
    /\ pc[1] = "waitUpdateService"
    /\ polled[1].Deployments = 2
    /\ polled[1].RunningCount = polled[1].DesiredCount

C12_WitnessCounts ==
    /\ pc[1] = "waitUpdateService"
    /\ polled[1].Deployments = 1
    /\ polled[1].RunningCount # polled[1].DesiredCount

\* the positions in the trace of slot s of the runs of that step
StepsAt(s, step) == {k \in 1..Len(trace[s]) : trace[s][k].step = step}

\* a describeService of waitUpdateService failed in slot s
FetchFailed(s) == \E k \in StepsAt(s, "waitUpdateService") : ~trace[s][k].ok

\* C24: a describeService that fails inside waitUpdateService (API error or service not
\* found) ends the wait on that tick with that error, no tick following; the deploy
\* ends there without calling UpdateState, its record staying Pending.
C24_FetchFailureEndsDeploy ==
    /\ \A k \in StepsAt(1, "waitUpdateService") :
            ~trace[1][k].ok => /\ k = Len(trace[1])
                               /\ pc[1] = "done"
                               /\ err[1] \in {"api", "service is not found"}
    /\ (cmd[1] = "deploy" /\ FetchFailed(1)) =>
            /\ StepsAt(1, "UpdateState.Pull") = {} /\ StepsAt(1, "UpdateState.Push") = {}
            /\ writes[1] = 1
            /\ History # <<>>
            /\ History[Len(History)] = DeployRecord(1, deployStatus_PENDING)

\* C24: a deploy whose wait ended on "service is not found" after a tick that kept waiting
C24_Witness ==
    /\ cmd[1] = "deploy"
    /\ FetchFailed(1)
    /\ err[1] = "service is not found"
    /\ polled[1] # NoService
    /\ History[Len(History)].Status = deployStatus_PENDING

(***************************************************************************)
(* Claims on one invocation (CliSpec, FairSpec)                            *)
(***************************************************************************)
Waiting == pc[1] = "waitUpdateService"

\* the service has one active deployment and as many running tasks as desired
Stable == ecs.Deployments = 1 /\ ecs.RunningCount = ecs.DesiredCount

\* C25: with the ticker fair and no describeService failing, a wait during which the
\* service becomes stable and stays so ends, the deploy going on to UpdateState (the
\* rollback to PushState); and a wait during which the service is never stable never
\* ends: there is no maximum wait.
C25_WaitEndsIffStable ==
    /\ (<>[]Stable /\ []~FetchFailed(1)) =>
            [](Waiting => <>(pc[1] \in {"UpdateState.Pull", "PushState.Pull"}))
    /\ []((Waiting /\ []~Stable /\ []~FetchFailed(1)) => []Waiting)

\* C25: a deploy has called UpdateState after a wait with a tick that kept waiting
C25_Witness ==
    /\ cmd[1] = "deploy"
    /\ pc[1] = "UpdateState.Pull"
    /\ Cardinality(StepsAt(1, "waitUpdateService")) = 1
    /\ polled[1].Deployments = 1

\* the steps that change something: all but the describe requests and the Pulls
Mutating == {"registerTaskDefinition", "tagDockerImage", "updateService", "PushState.Push",
             "UpdateState.Push"}

\* C26: within one invocation registerTaskDefinition and updateService (deploy),
\* updateService (rollback) and RunTask (oneshot) are each issued at most once, and a
\* failure of one ends the invocation instead of a retry; only the describeService of
\* waitUpdateService (and the describeTasks of waitTask) is repeated.
C26_MutationsIssuedOnce ==
    /\ \A k, l \in 1..Len(trace[1]) :
            (trace[1][k].step = trace[1][l].step /\ k # l) =>
                trace[1][k].step = "waitUpdateService"
    /\ Len(sent[1]) <= 1
    /\ \A k \in 1..Len(trace[1]) :
            (trace[1][k].step \in Mutating /\ ~trace[1][k].ok) =>
                k = Len(trace[1]) /\ pc[1] = "done"
    /\ oneshot.runs <= 1
    /\ (oneshot.runs = 1 /\ oneshot.pc = "exited" /\ oneshot.returned = "none") =>
            "DescribeTasks" \notin oneshot.issued

\* C26: a deploy failed in updateService, after registerTaskDefinition
C26_Witness ==
    /\ cmd[1] = "deploy"
    /\ pc[1] = "done"
    /\ StepsAt(1, "registerTaskDefinition") # {}
    /\ trace[1][Len(trace[1])] = [step |-> "updateService", ok |-> FALSE]

\* C26: a oneshot whose RunTask failed
C26_WitnessOneshot ==
    /\ oneshot.runs = 1
    /\ oneshot.err = "failed to runTask"

\* the notification of the given type for the invocation in slot 1
NotificationOf(messageType) ==
    [type |-> messageType, cluster |-> flags[1].cluster, serviceName |-> flags[1].serviceName]

\* C27: in deploy and rollback the first step that fails ends the workflow: no later
\* step runs, exactly one failure notification with the cluster and the service name is
\* emitted and no success notification; a success notification is emitted only when
\* every step, the last history write included, succeeded.
C27_FirstFailureEndsAndNotifies ==
    cmd[1] \in {"deploy", "rollback"} =>
        /\ \A k \in 1..Len(trace[1]) : ~trace[1][k].ok => k = Len(trace[1]) /\ pc[1] = "done"
        /\ pc[1] # "done" => notified[1] = <<>>
        /\ (pc[1] = "done" /\ err[1] # "nil") => notified[1] = <<NotificationOf("danger")>>
        /\ (pc[1] = "done" /\ err[1] = "nil") =>
                /\ notified[1] = <<NotificationOf("good")>>
                /\ \A k \in 1..Len(trace[1]) : trace[1][k].ok
                /\ trace[1][Len(trace[1])].step =
                        IF cmd[1] = "deploy" THEN "UpdateState.Push" ELSE "PushState.Push"

\* some flag the subcommand requires was not given, or no region is in the environment
NotConfigured ==
    \/ env.AWS_REGION = "" /\ env.AWS_DEFAULT_REGION = ""
    \/ cmd[1] # "none" /\ (~flags[1].cluster \/ ~flags[1].serviceName)
    \/ cmd[1] = "deploy" /\ ~flags[1].images
    \/ oneshot.pc # "idle" /\ (~oneshot.cluster \/ ~oneshot.taskDefName \/ ~oneshot.command)

\* C28: deploy, rollback and oneshot issue no request at all when a required flag or
\* argument is missing or when neither AWS_REGION nor AWS_DEFAULT_REGION is set; the
\* region used is AWS_REGION when it is set (also when both are), else
\* AWS_DEFAULT_REGION.
C28_NoRequestUnlessConfigured ==
    /\ (cmd[1] # "none" /\ NotConfigured) =>
            /\ pc[1] = "done" /\ err[1] # "nil"
            /\ trace[1] = <<>> /\ sent[1] = <<>> /\ writes[1] = 0
    /\ (oneshot.pc # "idle" /\ NotConfigured) =>
            /\ oneshot.pc = "exited" /\ oneshot.err # "nil"
            /\ oneshot.issued = {} /\ oneshot.runs = 0
    /\ \A region \in {IF env.AWS_REGION # "" THEN env.AWS_REGION ELSE env.AWS_DEFAULT_REGION} :
            /\ cmd[1] # "none" => flags[1].region = region
            /\ oneshot.pc # "idle" => oneshot.region = region

\* C28: both variables set, and a deploy has sent a request in the region of AWS_REGION
C28_Witness ==
    /\ env.AWS_REGION # "" /\ env.AWS_DEFAULT_REGION # ""
    /\ cmd[1] = "deploy"
    /\ trace[1] # <<>>
    /\ flags[1].region = env.AWS_REGION

\* C28: a rollback without --service-name, and a oneshot without a region, have ended
C28_WitnessRollback ==
    /\ cmd[1] = "rollback" /\ flags[1].cluster /\ ~flags[1].serviceName
    /\ pc[1] = "done"

C28_WitnessOneshot ==
    /\ oneshot.pc = "exited" /\ oneshot.cluster /\ oneshot.taskDefName /\ oneshot.command
    /\ oneshot.region = ""

\* C29: a rollback changes the status of no record of the stored history: its only
\* change to it is one Pending record appended (the oldest record dropped when the
\* history was full), and it never calls UpdateState.
C29_RollbackOnlyAppendsPending ==
    [][(cmd[1] = "rollback" /\ cmd'[1] = "rollback") =>
          /\ pc'[1] \notin {"UpdateState.Pull", "UpdateState.Push"}
          /\ \/ History' = History
             \/ /\ writes[1] = 0
                /\ History'[Len(History')].Status = deployStatus_PENDING
                /\ History' = LastRecords(Append(History, History'[Len(History')]),
                                          defaultHistoryLimit)]_vars

\* C29: a rollback of a service with a full history has succeeded: the oldest record is
\* gone, the four kept are Deployed as before, the new one is Pending
C29_Witness ==
    /\ cmd[1] = "rollback" /\ pc[1] = "done" /\ err[1] = "nil"
    /\ Len(states[1]) = defaultHistoryLimit
    /\ SubSeq(History, 1, defaultHistoryLimit - 1) = SubSeq(states[1], 2, defaultHistoryLimit)
    /\ History[defaultHistoryLimit].Status = deployStatus_PENDING
    /\ History[defaultHistoryLimit].Revision = states[1][defaultHistoryLimit - 1].Revision

(***************************************************************************)
(* Claims on concurrent invocations (ConcurrentSpec)                       *)
(***************************************************************************)
\* C10: no UpdateService request is issued while the service has more than one active
\* deployment, in any interleaving of two invocations.
C10_NeverSubmitsWhileDeploying ==
    \A s \in Slots : \A k \in 1..Len(sent[s]) : sent[s][k].active <= 1

(***************************************************************************)
(* Claims on specifyRevision (ResolverSpec)                                *)
(***************************************************************************)
\* arn is X:<positive integer> with the ":" at position k
RevisionSuffixAt(arn, k) ==
    /\ k \in 1..(Len(arn) - 1)
    /\ arn[k] = ":"
    /\ arn[k + 1] \in NonZeroDigit
    /\ \A j \in (k + 2)..Len(arn) : arn[j] \in Digit

\* text is the decimal numeral of the positive integer n
IsNumeralOf(text, n) ==
    /\ Len(text) >= 1
    /\ text[1] \in NonZeroDigit
    /\ \A j \in 1..Len(text) : text[j] \in Digit
    /\ RevisionOfArn(text) = n

\* C18: for revision > 0 and a reference X:<positive integer>, specifyRevision returns
\* X:<revision> and no error; for revision <= 0 it returns the reference unchanged.
C18_ResolverReplacesRevision ==
    resolve.called =>
        /\ resolve.revision <= 0 => (resolve.out = resolve.arn /\ resolve.err = "nil")
        /\ resolve.revision > 0 =>
              \A k \in 1..Len(resolve.arn) :
                  RevisionSuffixAt(resolve.arn, k) =>
                      /\ resolve.err = "nil"
                      /\ Len(resolve.out) > k
                      /\ SubSeq(resolve.out, 1, k) = SubSeq(resolve.arn, 1, k)
                      /\ IsNumeralOf(SubSeq(resolve.out, k + 1, Len(resolve.out)),
                                     resolve.revision)

C18_Witness ==
    /\ resolve.called
    /\ resolve.revision = 10
    /\ resolve.arn = <<":", "1", ":", "1">>
    /\ resolve.out = <<":", "1", ":", "1", "0">>

\* C19: for revision > 0 and a reference without a trailing :<positive integer>,
\* specifyRevision returns an error.
C19_ResolverRejectsUnrevisioned ==
    (resolve.called /\ resolve.revision > 0
        /\ ~\E k \in 1..Len(resolve.arn) : RevisionSuffixAt(resolve.arn, k))
        => resolve.err # "nil"

(***************************************************************************)
(* Claims on oneshot (OneshotSpec)                                         *)
(***************************************************************************)
\* C13: when waitTask returns a status, it has issued exactly one stop request if at
\* least one signal arrived while it ran, however many arrived, and none if no signal
\* arrived.
C13_StopRequestedExactlyOnce ==
    oneshot.returned = "status" =>
        oneshot.stops = (IF oneshot.signals > 0 THEN 1 ELSE 0)

\* C14: waitTask returns a status only from its ticker case, on a describeTask that
\* fetched LastStatus STOPPED; its signal case never returns: it leaves waitTask in the
\* loop, so a signal is followed by further polling.
C14_ReturnsOnlyOnStopped ==
    /\ oneshot.returned = "status" =>
          /\ oneshot.case = "tick"
          /\ oneshot.re.LastStatus = "STOPPED"
          /\ task.LastStatus = "STOPPED"
    /\ oneshot.case = "sig" =>
          /\ oneshot.returned = "none"
          /\ oneshot.pc \in {"stopTask", "select"}

C14_Witness ==
    /\ oneshot.returned = "status"
    /\ oneshot.label = "stopping"
    /\ oneshot.stops >= 1
    /\ oneshot.re.LastStatus = "STOPPED"

\* C15: when oneshot has observed the task STOPPED, the process's exit status is the
\* exit code the task's container reported, or 0 when it reported none, whether or not
\* a signal was received.
C15_ExitStatusIsContainerExitCode ==
    (oneshot.pc = "exited" /\ oneshot.returned = "status") =>
        oneshot.exit = (IF task.ExitCode.isNil THEN 0 ELSE task.ExitCode.v)

C15_Witness ==
    /\ oneshot.pc = "exited"
    /\ oneshot.returned = "status"
    /\ oneshot.label = "stopping"
    /\ task.stopRequested
    /\ oneshot.exit = 137

C15_WitnessNoExitCode ==
    /\ oneshot.pc = "exited"
    /\ oneshot.returned = "status"
    /\ oneshot.label = "stopping"
    /\ task.ExitCode.isNil
    /\ oneshot.exit = 0

\* C16: an invocation that ends with a validation failure or an API failure exits
\* with a non-zero status.
C16_FailureExitsNonZero ==
    (oneshot.pc = "exited" /\ oneshot.err # "nil") => oneshot.exit # 0

(***************************************************************************)
(* Claims on the preparation of a deploy (PrepareSpec)                     *)
(***************************************************************************)
\* the positions of the source containers whose image host matches ECRRegex
ManagedAt(containers) ==
    {i \in 1..Len(containers) : isECRHosted(parseDockerImage(containers[i].Image))}

\* C17: the draft built by createNewTaskDefinition holds exactly the source containers
\* whose image host matches ECRRegex, in source order, each with the fields of its
\* source container except Image, which is "<name>:<uniqueID>", name being the source
\* image without its tag.
C17_DraftKeepsManagedContainers ==
    prep.drafted =>
        LET src == prep.containers
            idx == ManagedAt(src)
        IN /\ Len(prep.draft) = Cardinality(idx)
           /\ \A k \in 1..Len(prep.draft) :
                LET i == CHOOSE x \in idx : Cardinality({y \in idx : y <= x}) = k
                IN /\ prep.draft[k].Name = src[i].Name
                   /\ prep.draft[k].Memory = src[i].Memory
                   /\ prep.draft[k].Image =
                        SubSeq(src[i].Image, 1, Len(src[i].Image) - 2) \o <<":", uniqueID>>

C17_Witness ==
    /\ prep.drafted
    /\ Len(prep.containers) = 2
    /\ prep.containers[1].Name = "proxy"
    /\ prep.containers[2].Name = "web"
    /\ prep.draft = <<[Name |-> "web", Memory |-> 256,
                       Image |-> EcrVirginia \o <<"/", "app", ":", "ULID">>]>>

\* C20: a container whose image host does not match ECRRegex is the subject of no
\* BatchGetImage or PutImage request, and the deploy does not fail for want of an
\* --image option for it.
C20_UnmanagedContainersUntouched ==
    /\ \A k \in 1..Len(prep.calls) : prep.calls[k].container \in ManagedAt(prep.containers)
    /\ prep.err = "can not found a image option" => prep.i \in ManagedAt(prep.containers)

\* container i has been retagged: its BatchGetImage, then its PutImage, both successful
Promoted(i) ==
    \E a, b \in 1..Len(prep.calls) :
        /\ a < b
        /\ prep.calls[a].op = "BatchGetImage" /\ prep.calls[a].container = i /\ prep.calls[a].ok
        /\ prep.calls[b].op = "PutImage" /\ prep.calls[b].container = i /\ prep.calls[b].ok

\* the positions in prep.issued of the requests of that kind
IssuedAt(op) == {k \in 1..Len(prep.issued) : prep.issued[k].op = op}

\* C22: registerTaskDefinition is issued only once every container with an ECR-hosted
\* image has been retagged (BatchGetImage and PutImage both successful), and
\* updateService only after a registerTaskDefinition that succeeded.
C22_PromoteRegisterUpdate ==
    /\ (prep.pc = "registerTaskDefinition" \/ IssuedAt("RegisterTaskDefinition") # {}) =>
            \A i \in ManagedAt(prep.containers) : Promoted(i)
    /\ \A k \in IssuedAt("UpdateService") :
            \E j \in IssuedAt("RegisterTaskDefinition") : j < k /\ prep.issued[j].ok

\* C22: updateService was issued for a task definition with two ECR-hosted containers
C22_Witness ==
    /\ IssuedAt("UpdateService") # {}
    /\ Cardinality(ManagedAt(prep.containers)) = 2

\* the retagging of some container failed: an ECR request was refused or returned no
\* image, or no --image option names the container's repository
PromotionFailed ==
    /\ prep.pc = "done"
    /\ \/ \E k \in 1..Len(prep.calls) : ~prep.calls[k].ok
       \/ prep.err = "can not found a image option"

\* C23: when the retagging of any container fails, the deploy has ended with that
\* failure and has issued no registerTaskDefinition, no updateService and no history
\* request, also when containers before it were retagged.
C23_PromotionFailureAborts ==
    /\ PromotionFailed => prep.err # "nil" /\ prep.issued = <<>> /\ ~prep.registered
    /\ \A k \in 1..Len(prep.calls) : ~prep.calls[k].ok => k = Len(prep.calls) /\ prep.pc = "done"

\* C23: the second container's retagging failed after the first was retagged
C23_Witness ==
    /\ PromotionFailed
    /\ Promoted(1)
    /\ prep.i = 2

\* C23: no --image option for the second container, the first retagged
C23_WitnessNoOption ==
    /\ prep.err = "can not found a image option"
    /\ Promoted(1)

(***************************************************************************)
(* Claims on concurrent PushState calls (WritersSpec)                      *)
(***************************************************************************)
\* both callers' PushState calls returned nil
BothPushed == \A w \in Slots : writers[w].pc = "done" /\ writers[w].err = "nil"

\* C21: PushState reads the whole value and then overwrites it, so two concurrent calls
\* with distinct revisions on the same key can lose one record: whenever both calls
\* returned nil and both had pulled the same history, the stored history is that
\* history with the record of the later writer alone appended (cut to HistoryLimit),
\* and holds no record of the other caller's revision.
C21_LastWriterWins ==
    (BothPushed /\ writers[1].pulled = writers[2].pulled) =>
        LET last == CHOOSE w \in Slots : writers[w].rank = 2
            first == CHOOSE w \in Slots : w # last
        IN /\ History = LastRecords(Append(writers[last].pulled,
                                           deployState(writers[last].revision,
                                                       deployStatus_PENDING,
                                                       writers[last].cause)),
                                    defaultHistoryLimit)
           /\ ~HasRevision(History, writers[first].revision)

\* C21: both calls returned nil and the stored history holds the record of one only
C21_Witness ==
    /\ BothPushed
    /\ Cardinality({w \in Slots : HasRevision(History, writers[w].revision)}) = 1

(***************************************************************************)
(* Claims on a service changed by another actor (ScaleSpec)                *)
(***************************************************************************)
\* C31: every UpdateService request carries the desired count the service has at the
\* moment the request is sent, also when another actor changed it after the
\* invocation's describeService.
C31_SubmitKeepsDesiredCount ==
    \A k \in 1..Len(sent[1]) : sent[1][k].DesiredCount = sent[1][k].current

(***************************************************************************)
(* Claims on the signal of oneshot (OneshotSpec)                           *)
(***************************************************************************)
\* C32: a signal delivered while waitTask runs, be it during its select or while
\* describeTask is in flight, is not lost: once waitTask is back in its select, or has
\* returned the task's status, a stop request has been issued and the label is
\* "stopping".
C32_SignalNotLost ==
    (oneshot.signals > 0 /\ (oneshot.pc = "select" \/ oneshot.returned = "status"))
        => (oneshot.stops > 0 /\ oneshot.label = "stopping")

(***************************************************************************)
(* Claims on the target of a rollback (Spec)                               *)
(***************************************************************************)
\* C33: a rollback resolves and submits the revision of the second-to-last record of
\* the history it pulled, whatever the status of that record: every UpdateService
\* request of a rollback names that revision.
C33_RollbackTargetsSecondToLast ==
    (cmd[1] = "rollback" /\ (pc[1] \in {"updateService", "waitUpdateService"} \/ sent[1] # <<>>))
        => /\ Len(states[1]) >= 2
           /\ taskDef[1] = states[1][Len(states[1]) - 1].Revision
           /\ \A k \in 1..Len(sent[1]) :
                 sent[1][k].TaskDefinition = states[1][Len(states[1]) - 1].Revision

\* C33: a deploy of revision r was aborted while Pending, a later deploy succeeded, and
\* the rollback that followed has submitted r, older Deployed records notwithstanding
C33_Witness ==
    /\ cmd[1] = "rollback"
    /\ Len(sent[1]) = 1
    /\ Len(states[1]) >= 2
    /\ LET n == Len(states[1]) IN
        /\ states[1][n - 1].Status = deployStatus_PENDING
        /\ states[1][n - 1].Cause[1] = "deploy"
        /\ states[1][n].Status = deployStatus_DEPLOYED
        /\ states[1][n].Revision > states[1][n - 1].Revision
        /\ sent[1][1].TaskDefinition = states[1][n - 1].Revision

(***************************************************************************)
(* Claims on two invocations in a row (TwoRunsSpec)                        *)
(***************************************************************************)
\* two rollbacks have run one after the other, both successfully
RolledBackTwice ==
    \A s \in Slots : cmd[s] = "rollback" /\ pc[s] = "done" /\ err[s] = "nil"

\* C34 as stated: two successful rollbacks in a row leave the service on the revision
\* it ran before the first of them.
C34_TwoRollbacksReturn ==
    RolledBackTwice => ecs.TaskDefinition = service[1].TaskDefinition

\* C34 as amended: the second of two successful rollbacks in a row pulls the history
\* the first pulled with the first one's target appended as the newest record, and
\* submits the revision of the record that was the newest when the first one pulled
\* (the revision the first reported rolling away from), on which it leaves the service.
C34_SecondRollbackTargetsFormerNewest ==
    RolledBackTwice =>
        LET n == Len(states[1])
            p == states[1][n - 1].Revision
            c == states[1][n].Revision
        IN /\ states[2] = LastRecords(
                  states[1] \o <<deployState(p, deployStatus_PENDING, Cause("rollback", c, p))>>,
                  defaultHistoryLimit)
           /\ Len(sent[2]) = 1
           /\ sent[2][1].TaskDefinition = c
           /\ ecs.TaskDefinition = c

\* C34: two successful rollbacks in a row on a full history whose newest record was the
\* revision the service ran: the service went to the previous revision and came back
C34_Witness ==
    /\ RolledBackTwice
    /\ Len(states[1]) = defaultHistoryLimit
    /\ service[1].TaskDefinition = states[1][defaultHistoryLimit].Revision
    /\ service[2].TaskDefinition = states[1][defaultHistoryLimit - 1].Revision
    /\ service[2].TaskDefinition # service[1].TaskDefinition
    /\ ecs.TaskDefinition = service[1].TaskDefinition

(***************************************************************************)
(* Claims on the observation behind a Deployed mark (ConcurrentSpec)       *)
(***************************************************************************)
\* C35: a deploy that has marked its revision r Deployed fetched, on the last tick of
\* its waitUpdateService, a service running r's task definition as its single active
\* deployment, in any interleaving with another deploy or rollback.
C35_DeployedAfterObservingOwnRevision ==
    \A s \in Slots :
        (cmd[s] = "deploy" /\ pc[s] = "done" /\ err[s] = "nil")
            => /\ polled[s].Deployments = 1
               /\ polled[s].TaskDefinition = registered[s]

====
